-------------------------- MODULE IdentityProofs ---------------------------
(***************************************************************************)
(* Theorems about Identity, for every number of requests and of accounts.  *)
(***************************************************************************)
EXTENDS Identity, FiniteSetTheorems, TLAPS

USE AdminIsARole, TimeIsNatural

-----------------------------------------------------------------------------
(* The inductive invariant: the handlers *)

\* What a handler carries that has found the account it signs in, or that has
\* been asked for an account, with the code of its enrollment.
SignsIn(l) == l.kind = "mfa" /\ l.user \in Name /\ l.token \in Name /\ l.code \in Code /\ l.time \in 0..MaxTime
Applies(r, l) ==
    l.kind = "account" /\ l.user = r /\ l.role \in Role /\ l.origin \in Name \cup {"setup", "user_creation"}
Enrolls(l) == l.role = "admin" /\ l.token \in Name /\ l.code \in Counter /\ l.time \in 0..MaxTime

\* What handler r carries to its statement p.
Carries(r, p, l) ==
    \/ p \in {"new", "done"} /\ l = Nothing
    \/ /\ l \in Local
       /\ \/ p = "challenge" /\ l.kind \in Purpose \ {"login_mfa"} /\ l.user = Nothing
          \/ /\ p \in {"challenge", "find_totp"} /\ l.kind = "login_mfa"
             /\ l.user \in Name /\ l.token = Nothing /\ l.code = Nothing
          \/ p \in {"credential", "recovery", "session"} /\ SignsIn(l)
          \/ p = "counter" /\ SignsIn(l) /\ l.code \in Counter
          \/ /\ p = "session" /\ l.kind \in {"login", "account"}
             /\ l.user \in Name /\ l.token = Nothing /\ l.code = Nothing
          \/ p \in {"enrollment", "consume"} /\ Applies(r, l) /\ Enrolls(l)
          \/ /\ p = "insert" /\ Applies(r, l)
             /\ Enrolls(l) \/ (l.role # "admin" /\ l.code = Nothing /\ l.origin # "setup")
          \/ p = "password" /\ l.kind = "password" /\ l.user \in Name
          \/ p = "invite" /\ l.kind = "invite" /\ l.user \in Name /\ l.role \in Role
          \/ p \in {"target", "count", "delete"} /\ l.kind = "delete" /\ l.user \in Name /\ l.role = Nothing
          \/ p \in {"target", "role", "revoke"} /\ l.kind = "role" /\ l.user \in Name /\ l.role \in Role
          \/ p = "count" /\ l.kind = "role" /\ l.user \in Name /\ l.role \in Role \ {"admin"}
          \/ p = "totp" /\ l.kind = "role" /\ l.user \in Name /\ l.role = "admin"

HandlersCarry == \A r \in Request : Carries(r, pc[r], local[r])

\* What a request makes is there when it is done.
MadeWhenDone ==
    \A r \in Request : pc[r] # "done" =>
        session[r] = Nothing /\ challenge[r] = Nothing /\ invitation[r] = Nothing

HandlerInv == TypeOK /\ HandlersCarry /\ MadeWhenDone

-----------------------------------------------------------------------------
(* The inductive invariant: accounts, and what belongs to them *)

\* No account is made under this name any more.
Past(u) == u \in Founder \/ pc[u] \notin {"new", "enrollment", "consume", "insert"}

\* The handler has found its account, which may have been deleted since.
HasFound(r) == pc[r] \notin {"new", "done", "target", "enrollment", "consume", "insert"} /\ local[r].user # Nothing

NamesAreNotReused ==
    /\ \A u \in Name : Exists(u) => Past(u)
    /\ \A r \in Request : HasFound(r) => Past(local[r].user)

\* Handlers have found of accounts that they have TOTP, or have not, and that
\* does not change while the account exists.
FindingsHold ==
    \A r \in Request :
        /\ pc[r] = "session" /\ ~Verified(r) /\ Exists(local[r].user) =>
              account[local[r].user].counter = Nothing
        /\ pc[r] = "role" /\ local[r].role = "admin" /\ Exists(local[r].user) =>
              account[local[r].user].counter # Nothing

AccountOK(a) ==
    /\ a.role = "admin" => a.counter # Nothing
    /\ a.counter = Nothing <=> a.enrolled = Nothing
    /\ a.counter # Nothing => a.enrolled <= a.counter

AccountsAreOK == \A u \in Name : account[u] # Nothing => AccountOK(account[u])

\* Sessions without a second factor are those of accounts without TOTP.
WeakSessions ==
    \A s \in Name : session[s] # Nothing /\ ~session[s].mfa => account[session[s].user].counter = Nothing

AccountInv ==
    NamesAreNotReused /\ FindingsHold /\ AccountsAreOK /\ NothingOutlivesItsAccount /\ WeakSessions

-----------------------------------------------------------------------------
(* The handlers move *)

Statement ==
    {"new", "challenge", "find_totp", "credential", "counter", "recovery", "session", "password",
     "enrollment", "consume", "insert", "invite", "target", "count", "totp", "role", "revoke",
     "delete", "done"}

\* Nothing is no row and no value of a column.
LEMMA NothingIsNone ==
    /\ Nothing \notin Account /\ Nothing \notin Session /\ Nothing \notin Challenge
    /\ Nothing \notin Invitation /\ Nothing \notin Local
    /\ Nothing \notin Name /\ Nothing \notin Role /\ Nothing \notin Code
    /\ Nothing \notin Counter /\ Nothing \notin 0..MaxTime
    BY NothingIsNoRecord, NothingIsNoValue DEF Code, Counter

\* One handler moves to another statement, with what that statement needs.
LEMMA HandlerMoves ==
    ASSUME TypeOK, HandlersCarry, NEW r \in Request, NEW p, NEW l, Carries(r, p, l),
           pc' = [pc EXCEPT ![r] = p], local' = [local EXCEPT ![r] = l]
    PROVE  /\ pc' \in [Request -> Statement]
           /\ local' \in [Request -> Local \cup {Nothing}]
           /\ HandlersCarry'
           /\ \A q \in Request : q # r => pc'[q] = pc[q] /\ local'[q] = local[q]
           /\ pc'[r] = p /\ local'[r] = l
<1>1. p \in Statement /\ l \in Local \cup {Nothing}
    BY DEF Carries, Statement
<1>2. pc \in [Request -> Statement] /\ local \in [Request -> Local \cup {Nothing}]
    BY DEF TypeOK, Statement
<1>3. \A q \in Request : q # r => pc'[q] = pc[q] /\ local'[q] = local[q]
    BY <1>2
<1>4. pc'[r] = p /\ local'[r] = l
    BY <1>2
<1>5. HandlersCarry'
    BY <1>3, <1>4 DEF HandlersCarry
<1>6. QED
    BY <1>1, <1>2, <1>3, <1>4, <1>5

LEMMA HandlerFinishes ==
    ASSUME TypeOK, HandlersCarry, NEW r \in Request, Finish(r)
    PROVE  /\ pc' \in [Request -> Statement]
           /\ local' \in [Request -> Local \cup {Nothing}]
           /\ HandlersCarry'
           /\ \A q \in Request : q # r => pc'[q] = pc[q] /\ local'[q] = local[q]
           /\ pc'[r] = "done" /\ local'[r] = Nothing
<1>1. Carries(r, "done", Nothing)
    BY DEF Carries
<1>2. pc' = [pc EXCEPT ![r] = "done"] /\ local' = [local EXCEPT ![r] = Nothing]
    BY DEF Finish, Goto
<1> QED
    BY <1>1, <1>2, HandlerMoves

-----------------------------------------------------------------------------
(* The handlers carry what their statements need *)

TablesTyped ==
    /\ account \in [Name -> Account \cup {Nothing}]
    /\ recovery \in [Name -> SUBSET RecoveryCode]
    /\ session \in [Name -> Session \cup {Nothing}]
    /\ challenge \in [Name -> Challenge \cup {Nothing}]
    /\ invitation \in [Name -> Invitation \cup {Nothing}]
    /\ bootstrap \in BOOLEAN

\* A handler finishes, with tables that are typed and hold nothing new of other
\* requests.
LEMMA FinishKeepsHandlers ==
    ASSUME HandlerInv, NEW r \in Request, Finish(r), pc[r] # "done", TablesTyped', now' = now,
           overlapped' = overlapped,
           \A n \in Name \ {r} :
               /\ session[n] = Nothing => session'[n] = Nothing
               /\ challenge[n] = Nothing => challenge'[n] = Nothing
               /\ invitation[n] = Nothing => invitation'[n] = Nothing
    PROVE  HandlerInv'
<1>1. TypeOK /\ HandlersCarry
    BY DEF HandlerInv
<1>2. /\ pc' \in [Request -> Statement]
      /\ local' \in [Request -> Local \cup {Nothing}]
      /\ HandlersCarry'
      /\ \A q \in Request : q # r => pc'[q] = pc[q]
      /\ pc'[r] = "done"
    BY <1>1, HandlerFinishes
<1>3. TypeOK'
    BY <1>1, <1>2 DEF TypeOK, TablesTyped, Statement
<1>4. MadeWhenDone'
    BY <1>2 DEF HandlerInv, MadeWhenDone, Name
<1> QED
    BY <1>2, <1>3, <1>4 DEF HandlerInv

\* A handler goes on.
LEMMA MoveKeepsHandlers ==
    ASSUME HandlerInv, NEW r \in Request, NEW p, NEW l, Carries(r, p, l), pc[r] # "done",
           pc' = [pc EXCEPT ![r] = p], local' = [local EXCEPT ![r] = l], TablesTyped', now' = now,
           overlapped' \in BOOLEAN,
           \A n \in Name :
               /\ session[n] = Nothing => session'[n] = Nothing
               /\ challenge[n] = Nothing => challenge'[n] = Nothing
               /\ invitation[n] = Nothing => invitation'[n] = Nothing
    PROVE  HandlerInv'
<1>1. TypeOK /\ HandlersCarry
    BY DEF HandlerInv
<1>2. /\ pc' \in [Request -> Statement]
      /\ local' \in [Request -> Local \cup {Nothing}]
      /\ HandlersCarry'
      /\ \A q \in Request : q # r => pc'[q] = pc[q]
    BY <1>1, HandlerMoves
<1>3. TypeOK'
    BY <1>1, <1>2 DEF TypeOK, TablesTyped, Statement
<1>4. MadeWhenDone'
    BY <1>2 DEF HandlerInv, MadeWhenDone, Name
<1> QED
    BY <1>2, <1>3, <1>4 DEF HandlerInv

\* The same when no table changes.
LEMMA QuietKeepsHandlers ==
    ASSUME HandlerInv, NEW r \in Request, NEW p, NEW l, Carries(r, p, l), pc[r] # "done",
           pc' = [pc EXCEPT ![r] = p], local' = [local EXCEPT ![r] = l],
           UNCHANGED <<tables, now>>, overlapped' \in BOOLEAN
    PROVE  HandlerInv'
<1>1. TablesTyped'
    BY DEF HandlerInv, TypeOK, TablesTyped, tables
<1> QED
    BY <1>1, MoveKeepsHandlers DEF tables

\* A handler begins.
LEMMA BeginKeepsHandlers ==
    ASSUME HandlerInv, NEW r \in Request, NEW p, NEW kind, NEW user, NEW role, NEW token, NEW code,
           NEW origin, Begin(r, p, kind, user, role, token, code, origin),
           Carries(r, p, [kind |-> kind, user |-> user, role |-> role, token |-> token, code |-> code,
                          time |-> IF code = Nothing THEN Nothing ELSE now, origin |-> origin])
    PROVE  HandlerInv'
<1> DEFINE l == [kind |-> kind, user |-> user, role |-> role, token |-> token, code |-> code,
                 time |-> IF code = Nothing THEN Nothing ELSE now, origin |-> origin]
<1>1. Carries(r, p, l)
    OBVIOUS
<1>2. /\ pc[r] = "new" /\ pc' = [pc EXCEPT ![r] = p] /\ local' = [local EXCEPT ![r] = l]
      /\ UNCHANGED <<tables, now, overlapped>>
    BY DEF Begin, Goto
<1>3. overlapped' \in BOOLEAN
    BY <1>2 DEF HandlerInv, TypeOK
<1> HIDE DEF l
<1> QED
    BY <1>1, <1>2, <1>3, QuietKeepsHandlers

\* The account of a session that is not revoked.
LEMMA AuthenticatedIsTyped ==
    ASSUME TypeOK, NEW s \in Name, Authenticated(s)
    PROVE  session[s].user \in Name /\ Exists(session[s].user)
<1>1. session[s] \in Session
    BY DEF TypeOK, Authenticated
<1> QED
    BY <1>1 DEF Session, Authenticated

LEMMA ApplyKeepsHandlers ==
    ASSUME HandlerInv, NEW r \in Request, NEW role \in Role, NEW t \in Name, NEW code \in Counter,
           NEW origin \in Name \cup {"setup", "user_creation"}, origin = "setup" => role = "admin",
           Apply(r, role, t, code, origin)
    PROVE  HandlerInv'
<1>1. r \in Name /\ code # Nothing /\ code \in Code
    BY NothingIsNone DEF Name, Code
<1>2. now \in 0..MaxTime
    BY DEF HandlerInv, TypeOK
<1>3. CASE role = "admin"
    <2> DEFINE l == [kind |-> "account", user |-> r, role |-> role, token |-> t, code |-> code,
                     time |-> IF code = Nothing THEN Nothing ELSE now, origin |-> origin]
    <2>1. l \in Local /\ Applies(r, l) /\ Enrolls(l)
        BY <1>1, <1>2, <1>3 DEF Local, Applies, Enrolls
    <2>2. Carries(r, "enrollment", l)
        BY <2>1 DEF Carries
    <2>3. Begin(r, "enrollment", "account", r, role, t, code, origin)
        BY <1>3 DEF Apply
    <2> QED
        BY <2>2, <2>3, BeginKeepsHandlers
<1>4. CASE role # "admin"
    <2> DEFINE l == [kind |-> "account", user |-> r, role |-> role, token |-> Nothing, code |-> Nothing,
                     time |-> IF Nothing = Nothing THEN Nothing ELSE now, origin |-> origin]
    <2>1. l \in Local /\ Applies(r, l) /\ l.role # "admin" /\ l.code = Nothing /\ l.origin # "setup"
        BY <1>1, <1>2, <1>4 DEF Local, Applies
    <2>2. Carries(r, "insert", l)
        BY <2>1 DEF Carries
    <2>3. Begin(r, "insert", "account", r, role, Nothing, Nothing, origin)
        BY <1>4 DEF Apply
    <2> QED
        BY <2>2, <2>3, BeginKeepsHandlers
<1> QED
    BY <1>3, <1>4

\* Every handler begins with what its first statement needs.
LEMMA EnterKeepsHandlers ==
    ASSUME HandlerInv, NothingOutlivesItsAccount, NEW r \in Request, Enter(r)
    PROVE  HandlerInv'
<1>0. TypeOK /\ HandlersCarry
    BY DEF HandlerInv
<1>1. ASSUME NEW purpose \in Purpose \ {"login_mfa"}, BeginTOTP(r, purpose)
      PROVE  HandlerInv'
    <2> DEFINE l == [kind |-> purpose, user |-> Nothing, role |-> Nothing, token |-> Nothing,
                     code |-> Nothing, time |-> IF Nothing = Nothing THEN Nothing ELSE now,
                     origin |-> Nothing]
    <2>1. l \in Local /\ l.kind = purpose /\ l.user = Nothing
        BY DEF Local, Purpose
    <2>2. Carries(r, "challenge", l)
        BY <2>1 DEF Carries
    <2>3. Begin(r, "challenge", purpose, Nothing, Nothing, Nothing, Nothing, Nothing)
        BY <1>1 DEF BeginTOTP
    <2> QED
        BY <2>2, <2>3, BeginKeepsHandlers
<1>2. ASSUME NEW u \in Name, Login(r, u)
      PROVE  HandlerInv'
    <2> DEFINE l == [kind |-> "login_mfa", user |-> u, role |-> account[u].role, token |-> Nothing,
                     code |-> Nothing, time |-> IF Nothing = Nothing THEN Nothing ELSE now,
                     origin |-> Nothing]
    <2>1. account[u].role \in Role
        BY <1>0, <1>2 DEF Login, Exists, TypeOK, Account
    <2>2. l \in Local /\ l.kind = "login_mfa" /\ l.user \in Name /\ l.token = Nothing /\ l.code = Nothing
        BY <2>1 DEF Local
    <2>3. Carries(r, "find_totp", l)
        BY <2>2 DEF Carries
    <2>4. Begin(r, "find_totp", "login_mfa", u, account[u].role, Nothing, Nothing, Nothing)
        BY <1>2 DEF Login
    <2> QED
        BY <2>3, <2>4, BeginKeepsHandlers
<1>3. ASSUME NEW t \in Name, NEW code \in Code, CompleteLoginMFA(r, t, code)
      PROVE  HandlerInv'
    <2> DEFINE l == [kind |-> "mfa", user |-> challenge[t].user, role |-> Nothing, token |-> t,
                     code |-> code, time |-> now, origin |-> Nothing]
    <2>1. challenge[t].user \in Name
        BY <1>3 DEF CompleteLoginMFA, NothingOutlivesItsAccount, Exists
    <2>2. now \in 0..MaxTime
        BY <1>0 DEF TypeOK
    <2>3. l \in Local /\ SignsIn(l)
        BY <2>1, <2>2 DEF Local, SignsIn
    <2>4. Carries(r, "credential", l)
        BY <2>3 DEF Carries
    <2>5. /\ pc' = [pc EXCEPT ![r] = "credential"] /\ local' = [local EXCEPT ![r] = l]
          /\ challenge' = [challenge EXCEPT ![t] = Nothing] /\ pc[r] = "new"
          /\ UNCHANGED <<account, recovery, session, invitation, bootstrap, now, overlapped>>
        BY <1>3 DEF CompleteLoginMFA, Goto, Consume
    <2>6. /\ TablesTyped' /\ overlapped' \in BOOLEAN
          /\ \A n \in Name : challenge[n] = Nothing => challenge'[n] = Nothing
        BY <1>0, <2>5 DEF TypeOK, TablesTyped
    <2> HIDE DEF l
    <2> QED
        BY <2>4, <2>5, <2>6, MoveKeepsHandlers
<1>4. ASSUME NEW t \in Name, NEW code \in Counter, CompleteSetup(r, t, code)
      PROVE  HandlerInv'
    BY <1>4, ApplyKeepsHandlers DEF CompleteSetup
<1>5. ASSUME NEW i \in Name, NEW t \in Name, NEW code \in Counter, AcceptInvitation(r, i, t, code)
      PROVE  HandlerInv'
    <2>1. invitation[i].role \in Role
        BY <1>0, <1>5 DEF AcceptInvitation, TypeOK, Invitation
    <2>2. i # "setup"
        BY NamesDiffer
    <2>3. Apply(r, invitation[i].role, t, code, i)
        BY <1>5 DEF AcceptInvitation
    <2> QED
        BY <2>1, <2>2, <2>3, ApplyKeepsHandlers
<1>6. ASSUME NEW s \in Name, Logout(r, s)
      PROVE  HandlerInv'
    <2>1. session[s] \in Session
        BY <1>0, <1>6 DEF Logout, Authenticated, TypeOK
    <2>2. session' = [session EXCEPT ![s].revoked = TRUE] /\ Finish(r) /\ pc[r] = "new"
          /\ UNCHANGED <<account, recovery, challenge, invitation, bootstrap, now, overlapped>>
        BY <1>6 DEF Logout
    <2>3. [session[s] EXCEPT !.revoked = TRUE] \in Session
        BY <2>1 DEF Session
    <2>4. /\ TablesTyped'
          /\ \A n \in Name : session[n] = Nothing => session'[n] = Nothing
        BY <1>0, <2>1, <2>2, <2>3, NothingIsNone DEF TypeOK, TablesTyped
    <2> QED
        BY <2>2, <2>4, FinishKeepsHandlers
<1>7. ASSUME NEW s \in Name, ChangePassword(r, s)
      PROVE  HandlerInv'
    <2> DEFINE l == [kind |-> "password", user |-> session[s].user, role |-> Nothing, token |-> Nothing,
                     code |-> Nothing, time |-> IF Nothing = Nothing THEN Nothing ELSE now,
                     origin |-> Nothing]
    <2>1. session[s].user \in Name
        BY <1>0, <1>7, AuthenticatedIsTyped DEF ChangePassword
    <2>2. l \in Local /\ l.kind = "password" /\ l.user \in Name
        BY <2>1 DEF Local
    <2>3. Carries(r, "password", l)
        BY <2>2 DEF Carries
    <2>4. Begin(r, "password", "password", session[s].user, Nothing, Nothing, Nothing, Nothing)
        BY <1>7 DEF ChangePassword
    <2> QED
        BY <2>3, <2>4, BeginKeepsHandlers
<1>8. ASSUME NEW s \in Name, NEW role \in Role, CreateInvitation(r, s, role)
      PROVE  HandlerInv'
    <2> DEFINE l == [kind |-> "invite", user |-> session[s].user, role |-> role, token |-> Nothing,
                     code |-> Nothing, time |-> IF Nothing = Nothing THEN Nothing ELSE now,
                     origin |-> Nothing]
    <2>1. session[s].user \in Name
        BY <1>0, <1>8, AuthenticatedIsTyped DEF CreateInvitation, Administrator
    <2>2. l \in Local /\ l.kind = "invite" /\ l.user \in Name /\ l.role \in Role
        BY <2>1 DEF Local
    <2>3. Carries(r, "invite", l)
        BY <2>2 DEF Carries
    <2>4. Begin(r, "invite", "invite", session[s].user, role, Nothing, Nothing, Nothing)
        BY <1>8 DEF CreateInvitation
    <2> QED
        BY <2>3, <2>4, BeginKeepsHandlers
<1>9. ASSUME NEW s \in Name, NEW t \in Name, NEW role \in Role, NEW code \in Counter,
             CreateUser(r, s, role, t, code)
      PROVE  HandlerInv'
    BY <1>9, ApplyKeepsHandlers DEF CreateUser
<1>10. ASSUME NEW s \in Name, NEW u \in Name, DeleteUser(r, s, u)
       PROVE  HandlerInv'
    <2> DEFINE l == [kind |-> "delete", user |-> u, role |-> Nothing, token |-> Nothing,
                     code |-> Nothing, time |-> IF Nothing = Nothing THEN Nothing ELSE now,
                     origin |-> Nothing]
    <2>1. l \in Local /\ l.kind = "delete" /\ l.user \in Name /\ l.role = Nothing
        BY DEF Local
    <2>2. Carries(r, "target", l)
        BY <2>1 DEF Carries
    <2>3. Begin(r, "target", "delete", u, Nothing, Nothing, Nothing, Nothing)
        BY <1>10 DEF DeleteUser
    <2> QED
        BY <2>2, <2>3, BeginKeepsHandlers
<1>11. ASSUME NEW s \in Name, NEW u \in Name, NEW role \in Role, ChangeUserRole(r, s, u, role)
       PROVE  HandlerInv'
    <2> DEFINE l == [kind |-> "role", user |-> u, role |-> role, token |-> Nothing,
                     code |-> Nothing, time |-> IF Nothing = Nothing THEN Nothing ELSE now,
                     origin |-> Nothing]
    <2>1. l \in Local /\ l.kind = "role" /\ l.user \in Name /\ l.role \in Role
        BY DEF Local
    <2>2. Carries(r, "target", l)
        BY <2>1 DEF Carries
    <2>3. Begin(r, "target", "role", u, role, Nothing, Nothing, Nothing)
        BY <1>11 DEF ChangeUserRole
    <2> QED
        BY <2>2, <2>3, BeginKeepsHandlers
<1> QED
    BY <1>1, <1>2, <1>3, <1>4, <1>5, <1>6, <1>7, <1>8, <1>9, <1>10, <1>11 DEF Enter

\* The new account is a row.
LEMMA InsertTyped ==
    ASSUME TypeOK, NEW r \in Request, pc[r] = "insert", Carries(r, pc[r], local[r]), InsertAccount(r)
    PROVE  /\ local[r] \in Local /\ Applies(r, local[r])
           /\ NewAccount(r) \in Account
           /\ account' = [account EXCEPT ![r] = NewAccount(r)]
           /\ account' \in [Name -> Account \cup {Nothing}]
           /\ recovery' \in [Name -> SUBSET RecoveryCode]
           /\ \A u \in Name : u # r => account'[u] = account[u] /\ recovery'[u] = recovery[u]
           /\ account'[r] = NewAccount(r)
           /\ recovery'[r] = IF local[r].role = "admin" THEN RecoveryCode ELSE {}
<1>1. local[r] \in Local /\ Applies(r, local[r])
      /\ (Enrolls(local[r]) \/ (local[r].role # "admin" /\ local[r].code = Nothing /\ local[r].origin # "setup"))
    BY DEF Carries
<1>2. NewAccount(r) \in Account
    BY <1>1 DEF NewAccount, Account, Enrolls, Applies
<1>3. /\ account' = [account EXCEPT ![r] = NewAccount(r)]
      /\ recovery' = [recovery EXCEPT ![r] = IF local[r].role = "admin" THEN RecoveryCode ELSE {}]
    BY DEF InsertAccount
<1>4. r \in Name
    BY DEF Name
<1>5. account \in [Name -> Account \cup {Nothing}] /\ recovery \in [Name -> SUBSET RecoveryCode]
    BY DEF TypeOK
<1> DEFINE codes == IF local[r].role = "admin" THEN RecoveryCode ELSE {}
<1>6. codes \in SUBSET RecoveryCode
    OBVIOUS
<1> QED
    BY <1>1, <1>2, <1>3, <1>4, <1>5, <1>6

\* What a session carries once its account has been made.
LEMMA WelcomeCarries ==
    ASSUME NEW r \in Request, pc[r] = "insert", Carries(r, pc[r], local[r])
    PROVE  Carries(r, "session", [local[r] EXCEPT !.token = Nothing, !.code = Nothing])
<1> DEFINE l == [local[r] EXCEPT !.token = Nothing, !.code = Nothing]
<1>1. local[r] \in Local /\ Applies(r, local[r])
    BY DEF Carries
<1>2. r \in Name
    BY DEF Name
<1>3. l \in Local /\ l.kind = "account" /\ l.user \in Name /\ l.token = Nothing /\ l.code = Nothing
    BY <1>1, <1>2 DEF Local, Applies
<1> QED
    BY <1>3 DEF Carries

LEMMA InsertKeepsHandlers ==
    ASSUME HandlerInv, NEW r \in Request, pc[r] = "insert", InsertAccount(r), Welcome(r),
           invitation' \in [Name -> Invitation \cup {Nothing}],
           \A n \in Name : invitation[n] = Nothing => invitation'[n] = Nothing,
           bootstrap' \in BOOLEAN, UNCHANGED <<session, challenge, now, overlapped>>
    PROVE  HandlerInv'
<1> DEFINE l == [local[r] EXCEPT !.token = Nothing, !.code = Nothing]
<1>1. TypeOK /\ Carries(r, pc[r], local[r])
    BY DEF HandlerInv, HandlersCarry
<1>2. Carries(r, "session", l)
    BY <1>1, WelcomeCarries
<1>3. account' \in [Name -> Account \cup {Nothing}] /\ recovery' \in [Name -> SUBSET RecoveryCode]
    BY <1>1, InsertTyped
<1>4. TablesTyped' /\ overlapped' \in BOOLEAN
    BY <1>1, <1>3 DEF TypeOK, TablesTyped
<1>5. pc' = [pc EXCEPT ![r] = "session"]
    BY DEF Welcome, Goto
<1>6. local' = [local EXCEPT ![r] = l]
    <2>1. local' = [local EXCEPT ![r].token = Nothing, ![r].code = Nothing]
        BY DEF Welcome
    <2>2. local[r] \in Local /\ local \in [Request -> Local \cup {Nothing}]
        BY <1>1 DEF Carries, TypeOK
    <2> QED
        BY <2>1, <2>2
<1> HIDE DEF l
<1> QED
    BY <1>2, <1>4, <1>5, <1>6, MoveKeepsHandlers


\* Sessions that are revoked are sessions still.
LEMMA RevokedTyped ==
    ASSUME TypeOK, NEW u
    PROVE  /\ Revoked(u) \in [Name -> Session \cup {Nothing}]
           /\ \A s \in Name :
                 /\ (Revoked(u)[s] = Nothing) = (session[s] = Nothing)
                 /\ session[s] # Nothing =>
                       /\ Revoked(u)[s].user = session[s].user /\ Revoked(u)[s].mfa = session[s].mfa
                       /\ Revoked(u)[s].token = session[s].token /\ Revoked(u)[s].code = session[s].code
                       /\ session[s].revoked => Revoked(u)[s].revoked
<1> SUFFICES ASSUME NEW s \in Name
             PROVE  /\ Revoked(u)[s] \in Session \cup {Nothing}
                    /\ (Revoked(u)[s] = Nothing) = (session[s] = Nothing)
                    /\ session[s] # Nothing =>
                          /\ Revoked(u)[s].user = session[s].user /\ Revoked(u)[s].mfa = session[s].mfa
                          /\ Revoked(u)[s].token = session[s].token /\ Revoked(u)[s].code = session[s].code
                          /\ session[s].revoked => Revoked(u)[s].revoked
    BY DEF Revoked
<1>1. CASE session[s] # Nothing /\ session[s].user = u
    <2>1. session[s] \in Session
        BY <1>1 DEF TypeOK
    <2>2. Revoked(u)[s] = [session[s] EXCEPT !.revoked = TRUE]
        BY <1>1 DEF Revoked
    <2>3. [session[s] EXCEPT !.revoked = TRUE] \in Session
        BY <2>1 DEF Session
    <2> QED
        BY <1>1, <2>1, <2>2, <2>3, NothingIsNone DEF Session
<1>2. CASE ~(session[s] # Nothing /\ session[s].user = u)
    <2>1. Revoked(u)[s] = session[s]
        BY <1>2 DEF Revoked
    <2> QED
        BY <2>1 DEF TypeOK
<1> QED
    BY <1>1, <1>2

\* Every statement leaves what the next one of its handler needs.
LEMMA StepKeepsHandlers ==
    ASSUME HandlerInv, NEW r \in Request, Step(r)
    PROVE  HandlerInv'
<1> DEFINE l == local[r]
<1>0. /\ TypeOK /\ HandlersCarry /\ TablesTyped /\ overlapped \in BOOLEAN
      /\ Carries(r, pc[r], l) /\ r \in Name
      /\ l \in Local => local = [local EXCEPT ![r] = l]
    BY DEF HandlerInv, TypeOK, TablesTyped, HandlersCarry, Name
<1>1. CASE CreateAuthChallenge(r)
    <2>1. l.kind \in Purpose /\ l.user \in Name \cup {Nothing}
        BY <1>0, <1>1 DEF CreateAuthChallenge, Carries, Purpose
    <2>2. [purpose |-> l.kind, user |-> l.user] \in Challenge
        BY <2>1 DEF Challenge
    <2>3. /\ challenge' = [challenge EXCEPT ![r] = [purpose |-> l.kind, user |-> l.user]]
          /\ Finish(r) /\ pc[r] # "done"
          /\ UNCHANGED <<account, recovery, session, invitation, bootstrap, now, overlapped>>
        BY <1>1 DEF CreateAuthChallenge
    <2>4. TablesTyped' /\ \A n \in Name \ {r} : challenge'[n] = challenge[n]
        BY <1>0, <2>2, <2>3 DEF TablesTyped
    <2> QED
        BY <2>3, <2>4, FinishKeepsHandlers
<1>2. CASE FindTOTP(r)
    <2>1. l \in Local /\ l.kind = "login_mfa" /\ l.user \in Name /\ l.token = Nothing /\ l.code = Nothing
        BY <1>0, <1>2 DEF FindTOTP, Carries
    <2>2. Carries(r, "challenge", l)
        BY <2>1 DEF Carries
    <2>3. [l EXCEPT !.kind = "login"] \in Local
        BY <2>1 DEF Local
    <2>4. Carries(r, "session", [l EXCEPT !.kind = "login"])
        BY <2>1, <2>3 DEF Carries
    <2>5. \/ pc' = [pc EXCEPT ![r] = "challenge"] /\ local' = [local EXCEPT ![r] = l]
          \/ pc' = [pc EXCEPT ![r] = "session"] /\ local' = [local EXCEPT ![r] = [l EXCEPT !.kind = "login"]]
        BY <1>0, <1>2, <2>1 DEF FindTOTP, Goto
    <2>6. UNCHANGED <<tables, now, overlapped>> /\ pc[r] # "done"
        BY <1>2 DEF FindTOTP
    <2> HIDE DEF l
    <2> QED
        BY <1>0, <2>2, <2>4, <2>5, <2>6, QuietKeepsHandlers
<1>3. CASE LoadCredential(r)
    <2>1. l \in Local /\ SignsIn(l)
        BY <1>0, <1>3 DEF LoadCredential, Carries
    <2>2. Carries(r, "recovery", l) /\ (l.code \in Counter => Carries(r, "counter", l))
        BY <2>1 DEF Carries
    <2>3. \E p : Carries(r, p, l) /\ pc' = [pc EXCEPT ![r] = p]
        BY <1>3, <2>2 DEF LoadCredential, ValidCode, Goto
    <2>4. UNCHANGED <<tables, now, overlapped>> /\ pc[r] # "done" /\ local' = [local EXCEPT ![r] = l]
        BY <1>0, <1>3, <2>1 DEF LoadCredential
    <2> HIDE DEF l
    <2> QED
        BY <1>0, <2>3, <2>4, QuietKeepsHandlers
<1>4. CASE UpdateTOTPCounter(r)
    <2>1. l \in Local /\ SignsIn(l) /\ l.code \in Counter
        BY <1>0, <1>4 DEF UpdateTOTPCounter, Carries
    <2>2. Carries(r, "session", l)
        BY <2>1 DEF Carries
    <2>3. l.user \in Name /\ account[l.user] \in Account
        BY <1>0, <1>4 DEF UpdateTOTPCounter, HasTOTP, Exists, TypeOK
    <2>4. [account[l.user] EXCEPT !.counter = l.code] \in Account
        BY <2>1, <2>3 DEF Account
    <2>5. /\ account' = [account EXCEPT ![l.user].counter = l.code] /\ pc[r] # "done"
          /\ pc' = [pc EXCEPT ![r] = "session"] /\ local' = [local EXCEPT ![r] = l]
          /\ UNCHANGED <<recovery, session, challenge, invitation, bootstrap, now, overlapped>>
        BY <1>0, <1>4, <2>1 DEF UpdateTOTPCounter, Goto
    <2>6. TablesTyped' /\ overlapped' \in BOOLEAN
        BY <1>0, <2>4, <2>5 DEF TablesTyped
    <2> HIDE DEF l
    <2> QED
        BY <2>2, <2>5, <2>6, MoveKeepsHandlers
<1>5. CASE UseRecoveryCode(r)
    <2>1. l \in Local /\ SignsIn(l)
        BY <1>0, <1>5 DEF UseRecoveryCode, Carries
    <2>2. Carries(r, "session", l)
        BY <2>1 DEF Carries
    <2>3. /\ recovery' = [recovery EXCEPT ![l.user] = @ \ {l.code}] /\ pc[r] # "done"
          /\ pc' = [pc EXCEPT ![r] = "session"] /\ local' = [local EXCEPT ![r] = l]
          /\ UNCHANGED <<account, session, challenge, invitation, bootstrap, now, overlapped>>
        BY <1>0, <1>5, <2>1 DEF UseRecoveryCode, Goto
    <2>4. l.user \in Name
        BY <2>1 DEF SignsIn
    <2>5. TablesTyped' /\ overlapped' \in BOOLEAN
        BY <1>0, <2>3, <2>4 DEF TablesTyped
    <2> HIDE DEF l
    <2> QED
        BY <2>2, <2>3, <2>5, MoveKeepsHandlers
<1>6. CASE CreateSession(r)
    <2>1. l \in Local /\ l.user \in Name
        BY <1>0, <1>6 DEF CreateSession, Carries, SignsIn
    <2>2. NewSession(r) \in Session
        BY <2>1 DEF NewSession, Session, Local, Verified
    <2>3. /\ session' = [session EXCEPT ![r] = NewSession(r)] /\ Finish(r) /\ pc[r] # "done"
          /\ UNCHANGED <<account, recovery, challenge, invitation, bootstrap, now, overlapped>>
        BY <1>6 DEF CreateSession
    <2>4. TablesTyped' /\ \A n \in Name \ {r} : session'[n] = session[n]
        BY <1>0, <2>2, <2>3 DEF TablesTyped
    <2> QED
        BY <2>3, <2>4, FinishKeepsHandlers
<1>7. CASE UpdatePassword(r) \/ RevokeUserSessions(r)
    <2>1. /\ session' = Revoked(l.user) /\ Finish(r) /\ pc[r] # "done"
          /\ UNCHANGED <<account, recovery, challenge, invitation, bootstrap, now, overlapped>>
        BY <1>7 DEF UpdatePassword, RevokeUserSessions
    <2>2. TablesTyped' /\ \A n \in Name : session[n] = Nothing => session'[n] = Nothing
        BY <1>0, <2>1, RevokedTyped DEF TablesTyped
    <2> QED
        BY <2>1, <2>2, FinishKeepsHandlers
<1>8. CASE LoadEnrollment(r) \/ ConsumeEnrollment(r)
    <2>1. l \in Local /\ Applies(r, l) /\ Enrolls(l)
        BY <1>0, <1>8 DEF LoadEnrollment, ConsumeEnrollment, Carries
    <2>2. Carries(r, "consume", l) /\ Carries(r, "insert", l)
        BY <2>1 DEF Carries
    <2>3. CASE LoadEnrollment(r)
        <3>1. /\ UNCHANGED <<tables, now, overlapped>> /\ pc[r] # "done" /\ local' = [local EXCEPT ![r] = l]
              /\ pc' = [pc EXCEPT ![r] = "consume"]
            BY <1>0, <2>1, <2>3 DEF LoadEnrollment, Goto
        <3> HIDE DEF l
        <3> QED
            BY <1>0, <2>2, <3>1, QuietKeepsHandlers
    <2>4. CASE ConsumeEnrollment(r)
        <3>1. /\ challenge' = [challenge EXCEPT ![l.token] = Nothing]
              /\ pc[r] # "done" /\ local' = [local EXCEPT ![r] = l] /\ pc' = [pc EXCEPT ![r] = "insert"]
              /\ UNCHANGED <<account, recovery, session, invitation, bootstrap, now, overlapped>>
            BY <1>0, <2>1, <2>4 DEF ConsumeEnrollment, Consume, Goto
        <3>2. l.token \in Name
            BY <2>1 DEF Enrolls
        <3>3. /\ TablesTyped' /\ overlapped' \in BOOLEAN
              /\ \A n \in Name : challenge[n] = Nothing => challenge'[n] = Nothing
            BY <1>0, <3>1, <3>2 DEF TablesTyped
        <3> HIDE DEF l
        <3> QED
            BY <2>2, <3>1, <3>3, MoveKeepsHandlers
    <2> QED
        BY <1>8, <2>3, <2>4
<1>9. CASE CreateFirstAdmin(r)
    BY <1>0, <1>9, InsertKeepsHandlers DEF CreateFirstAdmin, TablesTyped
<1>10. CASE StoreInvitation(r)
    <2> DEFINE i == l.origin
    <2>1. i \in Name /\ invitation[i] \in Invitation
          /\ invitation' = [invitation EXCEPT ![i].used = TRUE]
        BY <1>0, <1>10 DEF StoreInvitation, TablesTyped
    <2>2. [invitation[i] EXCEPT !.used = TRUE] \in Invitation
        BY <2>1 DEF Invitation
    <2>3. /\ invitation' \in [Name -> Invitation \cup {Nothing}]
          /\ \A n \in Name : invitation[n] = Nothing => invitation'[n] = Nothing
        BY <1>0, <2>1, <2>2, NothingIsNone DEF TablesTyped
    <2>4. bootstrap' \in BOOLEAN
        BY <1>0, <1>10 DEF StoreInvitation, TablesTyped
    <2> QED
        BY <1>0, <1>10, <2>3, <2>4, InsertKeepsHandlers DEF StoreInvitation
<1>11. CASE StoreUser(r)
    <2>1. /\ pc[r] = "insert" /\ InsertAccount(r) /\ Finish(r)
          /\ UNCHANGED <<session, challenge, invitation, bootstrap, now, overlapped>>
        BY <1>11 DEF StoreUser
    <2>2. account' \in [Name -> Account \cup {Nothing}] /\ recovery' \in [Name -> SUBSET RecoveryCode]
        BY <1>0, <2>1, InsertTyped
    <2>3. TablesTyped'
        BY <1>0, <2>1, <2>2 DEF TablesTyped
    <2> QED
        BY <2>1, <2>3, FinishKeepsHandlers
<1>12. CASE StoreNewInvitation(r)
    <2>1. l.user \in Name /\ l.role \in Role
        BY <1>0, <1>12 DEF StoreNewInvitation, Carries
    <2>2. [role |-> l.role, by |-> l.user, used |-> FALSE] \in Invitation
        BY <2>1 DEF Invitation
    <2>3. /\ invitation' = [invitation EXCEPT ![r] = [role |-> l.role, by |-> l.user, used |-> FALSE]]
          /\ Finish(r) /\ pc[r] # "done"
          /\ UNCHANGED <<account, recovery, session, challenge, bootstrap, now, overlapped>>
        BY <1>12 DEF StoreNewInvitation
    <2>4. TablesTyped' /\ \A n \in Name \ {r} : invitation'[n] = invitation[n]
        BY <1>0, <2>2, <2>3 DEF TablesTyped
    <2> QED
        BY <2>3, <2>4, FinishKeepsHandlers
<1>13. CASE FindTarget(r) \/ CountAdmins(r) \/ RequireTOTP(r)
    <2>1. /\ l \in Local /\ UNCHANGED <<tables, now>> /\ pc[r] # "done" /\ local' = [local EXCEPT ![r] = l]
          /\ overlapped' \in BOOLEAN
        BY <1>0, <1>13 DEF FindTarget, CountAdmins, RequireTOTP, Carries
    <2>2. \E p : Carries(r, p, l) /\ pc' = [pc EXCEPT ![r] = p]
        <3>1. CASE FindTarget(r)
            BY <1>0, <3>1 DEF FindTarget, Carries, Goto, Proceed
        <3>2. CASE CountAdmins(r)
            BY <1>0, <3>2 DEF CountAdmins, Carries, Goto, Proceed
        <3>3. CASE RequireTOTP(r)
            BY <1>0, <3>3 DEF RequireTOTP, Carries, Goto
        <3> QED
            BY <1>13, <3>1, <3>2, <3>3
    <2> HIDE DEF l
    <2> QED
        BY <1>0, <2>1, <2>2, QuietKeepsHandlers
<1>14. CASE SetUserRole(r)
    <2>1. l \in Local /\ l.kind = "role" /\ l.user \in Name /\ l.role \in Role
        BY <1>0, <1>14 DEF SetUserRole, Carries
    <2>2. Carries(r, "revoke", l)
        BY <2>1 DEF Carries
    <2>3. /\ pc[r] # "done" /\ local' = [local EXCEPT ![r] = l] /\ pc' = [pc EXCEPT ![r] = "revoke"]
          /\ UNCHANGED <<recovery, session, challenge, invitation, bootstrap, now, overlapped>>
        BY <1>0, <1>14, <2>1 DEF SetUserRole, Goto
    <2>4. account' \in [Name -> Account \cup {Nothing}]
        <3>1. CASE Exists(l.user)
            <4>1. account[l.user] \in Account
                BY <1>0, <3>1 DEF Exists, TablesTyped
            <4>2. [account[l.user] EXCEPT !.role = l.role] \in Account
                BY <2>1, <4>1 DEF Account
            <4> QED
                BY <1>0, <1>14, <3>1, <4>2 DEF SetUserRole, TablesTyped
        <3>2. CASE ~Exists(l.user)
            BY <1>0, <1>14, <3>2 DEF SetUserRole, TablesTyped
        <3> QED
            BY <3>1, <3>2
    <2>5. TablesTyped' /\ overlapped' \in BOOLEAN
        BY <1>0, <2>3, <2>4 DEF TablesTyped
    <2> HIDE DEF l
    <2> QED
        BY <2>2, <2>3, <2>5, MoveKeepsHandlers
<1>15. CASE StoreDeleteUser(r)
    <2>1. Finish(r) /\ pc[r] # "done" /\ UNCHANGED <<bootstrap, now, overlapped>>
        BY <1>15 DEF StoreDeleteUser
    <2>2. /\ account' \in [Name -> Account \cup {Nothing}]
          /\ recovery' \in [Name -> SUBSET RecoveryCode]
        BY <1>0, <1>15 DEF StoreDeleteUser, TablesTyped
    <2>3. /\ session' \in [Name -> Session \cup {Nothing}]
          /\ \A n \in Name : session[n] = Nothing => session'[n] = Nothing
        BY <1>0, <1>15 DEF StoreDeleteUser, TablesTyped
    <2>4. /\ challenge' \in [Name -> Challenge \cup {Nothing}]
          /\ \A n \in Name : challenge[n] = Nothing => challenge'[n] = Nothing
        BY <1>0, <1>15 DEF StoreDeleteUser, TablesTyped
    <2>5. /\ invitation' \in [Name -> Invitation \cup {Nothing}]
          /\ \A n \in Name : invitation[n] = Nothing => invitation'[n] = Nothing
        BY <1>0, <1>15 DEF StoreDeleteUser, TablesTyped
    <2>6. TablesTyped'
        BY <1>0, <2>1, <2>2, <2>3, <2>4, <2>5 DEF TablesTyped
    <2> QED
        BY <2>1, <2>3, <2>4, <2>5, <2>6, FinishKeepsHandlers
<1> QED
    BY <1>1, <1>2, <1>3, <1>4, <1>5, <1>6, <1>7, <1>8, <1>9, <1>10, <1>11, <1>12, <1>13, <1>14, <1>15
    DEF Step


\* The handlers carry what their statements need, whatever happens.
LEMMA HandlersHold ==
    ASSUME HandlerInv, NothingOutlivesItsAccount, [Next]_vars
    PROVE  HandlerInv'
<1>1. TypeOK /\ TablesTyped
    BY DEF HandlerInv, TypeOK, TablesTyped
<1>2. ASSUME NEW r \in Request, Abort(r)
      PROVE  HandlerInv'
    BY <1>1, <1>2, FinishKeepsHandlers DEF Abort, Deny, tables, TablesTyped
<1>3. CASE Restart
    <2>1. TypeOK'
        BY <1>1, <1>3 DEF Restart, TypeOK
    <2>2. HandlersCarry'
        BY <1>3 DEF Restart, HandlersCarry, Carries
    <2>3. MadeWhenDone'
        BY <1>3 DEF Restart, HandlerInv, MadeWhenDone
    <2> QED
        BY <2>1, <2>2, <2>3 DEF HandlerInv
<1>4. CASE Tick
    BY <1>4 DEF Tick, HandlerInv, TypeOK, HandlersCarry, MadeWhenDone, tables
<1>5. CASE UNCHANGED vars
    BY <1>5 DEF vars, tables, HandlerInv, TypeOK, HandlersCarry, MadeWhenDone
<1> QED
    BY <1>2, <1>3, <1>4, <1>5, EnterKeepsHandlers, StepKeepsHandlers DEF Next

-----------------------------------------------------------------------------
(* What a step does to the rows *)

TableStep(r) ==
    \/ CreateAuthChallenge(r)
    \/ \E t \in Name, code \in Code : CompleteLoginMFA(r, t, code)
    \/ UpdateTOTPCounter(r) \/ UseRecoveryCode(r) \/ CreateSession(r)
    \/ (\E s \in Name : Logout(r, s)) \/ UpdatePassword(r) \/ RevokeUserSessions(r)
    \/ ConsumeEnrollment(r) \/ CreateFirstAdmin(r) \/ StoreInvitation(r) \/ StoreUser(r)
    \/ StoreNewInvitation(r) \/ SetUserRole(r) \/ StoreDeleteUser(r)

\* All other steps leave the rows alone.
LEMMA StillOrTableStep ==
    ASSUME [Next]_vars
    PROVE  \/ UNCHANGED <<account, recovery, session, challenge, invitation>>
           \/ \E r \in Request : TableStep(r)
<1>1. ASSUME NEW r \in Request, Enter(r)
      PROVE  UNCHANGED <<account, recovery, session, challenge, invitation>> \/ TableStep(r)
    BY <1>1 DEF Enter, TableStep, BeginTOTP, Login, CompleteSetup, AcceptInvitation, ChangePassword,
        CreateInvitation, CreateUser, DeleteUser, ChangeUserRole, Apply, Begin, tables
<1>2. ASSUME NEW r \in Request, Step(r)
      PROVE  UNCHANGED <<account, recovery, session, challenge, invitation>> \/ TableStep(r)
    BY <1>2 DEF Step, TableStep, FindTOTP, LoadCredential, LoadEnrollment, FindTarget, CountAdmins,
        RequireTOTP, tables
<1>3. ASSUME NEW r \in Request, Abort(r)
      PROVE  UNCHANGED <<account, recovery, session, challenge, invitation>>
    BY <1>3 DEF Abort, Deny, tables
<1>4. CASE Restart \/ Tick \/ UNCHANGED vars
    BY <1>4 DEF Restart, Tick, vars, tables
<1> QED
    BY <1>1, <1>2, <1>3, <1>4 DEF Next

\* A row of an account that is written again, one that is inserted, and one that
\* is deleted with all that belonged to it.
Rewritten(a, b) ==
    /\ a # Nothing /\ b # Nothing /\ AccountOK(b)
    /\ b.origin = a.origin /\ b.enrolled = a.enrolled
    /\ a.counter = Nothing <=> b.counter = Nothing
    /\ a.counter # Nothing => a.counter <= b.counter

Inserted(u) ==
    /\ u \in Request /\ (CreateFirstAdmin(u) \/ StoreInvitation(u) \/ StoreUser(u))
    /\ pc[u] = "insert" /\ pc'[u] \in {"session", "done"}
    /\ \A q \in Request : q # u => pc'[q] = pc[q]
    /\ account'[u] = NewAccount(u) /\ NewAccount(u) # Nothing /\ AccountOK(NewAccount(u))
    /\ UNCHANGED <<session, challenge>>

Deleted(u) ==
    /\ account'[u] = Nothing /\ recovery'[u] = {}
    /\ \A n \in Name :
        /\ session'[n] # Nothing => session'[n].user # u
        /\ challenge'[n] # Nothing => challenge'[n].user # u
        /\ invitation'[n] # Nothing => invitation'[n].by # u

LEMMA InsertInserts ==
    ASSUME HandlerInv, NEW r \in Request, CreateFirstAdmin(r) \/ StoreInvitation(r) \/ StoreUser(r)
    PROVE  /\ Inserted(r)
           /\ \A u \in Name : u # r => account'[u] = account[u]
<1>1. TypeOK /\ Carries(r, pc[r], local[r])
    BY DEF HandlerInv, HandlersCarry
<1>2. /\ pc[r] = "insert" /\ InsertAccount(r) /\ (Welcome(r) \/ Finish(r))
      /\ UNCHANGED <<session, challenge>>
    BY DEF CreateFirstAdmin, StoreInvitation, StoreUser
<1>3. /\ local[r] \in Local /\ Applies(r, local[r])
      /\ NewAccount(r) \in Account /\ account'[r] = NewAccount(r)
      /\ \A u \in Name : u # r => account'[u] = account[u]
    BY <1>1, <1>2, InsertTyped
<1>4. Enrolls(local[r]) \/ (local[r].role # "admin" /\ local[r].code = Nothing)
    BY <1>1, <1>2 DEF Carries
<1>5. AccountOK(NewAccount(r))
    BY <1>4, NothingIsNone DEF NewAccount, AccountOK, Enrolls, Counter
<1>6. pc'[r] \in {"session", "done"} /\ \A q \in Request : q # r => pc'[q] = pc[q]
    BY <1>1, <1>2 DEF Welcome, Finish, Goto, TypeOK
<1> QED
    BY <1>2, <1>3, <1>5, <1>6, NothingIsNone DEF Inserted

LEMMA CounterRewrites ==
    ASSUME HandlerInv, AccountInv, NEW r \in Request, UpdateTOTPCounter(r)
    PROVE  \A u \in Name : IF u = local[r].user
                           THEN /\ Rewritten(account[u], account'[u])
                                /\ account'[u].role = account[u].role
                           ELSE account'[u] = account[u]
<1> DEFINE v == local[r].user
           b == [account[v] EXCEPT !.counter = local[r].code]
<1>1. account \in [Name -> Account \cup {Nothing}]
    BY DEF HandlerInv, TypeOK
<1>2. /\ v \in Name /\ account[v] # Nothing /\ account[v].counter # Nothing
      /\ account[v].counter < local[r].code
      /\ account' = [account EXCEPT ![v].counter = local[r].code]
    BY DEF UpdateTOTPCounter, HasTOTP, Exists
<1>3. account[v] \in Account /\ AccountOK(account[v])
    BY <1>1, <1>2 DEF AccountInv, AccountsAreOK
<1>4. local[r].code \in Counter
    BY DEF UpdateTOTPCounter, HandlerInv, HandlersCarry, Carries
<1>5. Rewritten(account[v], b) /\ b.role = account[v].role
    BY <1>2, <1>3, <1>4, NothingIsNone DEF Rewritten, AccountOK, Account, Counter
<1>6. account'[v] = b /\ \A u \in Name : u # v => account'[u] = account[u]
    BY <1>1, <1>2
<1> HIDE DEF b
<1> QED
    BY <1>5, <1>6

LEMMA AccountRows ==
    ASSUME HandlerInv, AccountInv, [Next]_vars, NEW u \in Name
    PROVE  \/ account'[u] = account[u] \/ Rewritten(account[u], account'[u])
           \/ Inserted(u) \/ Deleted(u)
<1>1. TablesTyped
    BY DEF HandlerInv, TypeOK, TablesTyped
<1>2. CASE account' = account
    BY <1>2
<1>3. ASSUME NEW r \in Request, UpdateTOTPCounter(r)
      PROVE  account'[u] = account[u] \/ Rewritten(account[u], account'[u])
    BY <1>3, CounterRewrites
<1>4. ASSUME NEW r \in Request, CreateFirstAdmin(r) \/ StoreInvitation(r) \/ StoreUser(r)
      PROVE  account'[u] = account[u] \/ Inserted(u)
    BY <1>4, InsertInserts
<1>5. ASSUME NEW r \in Request, SetUserRole(r)
      PROVE  account'[u] = account[u] \/ Rewritten(account[u], account'[u])
    <2> DEFINE v == local[r].user
               b == [account[v] EXCEPT !.role = local[r].role]
    <2>1. CASE ~Exists(v)
        BY <1>5, <2>1 DEF SetUserRole
    <2>2. CASE Exists(v)
        <3>1. account' = [account EXCEPT ![v].role = local[r].role] /\ v \in Name /\ account[v] # Nothing
            BY <1>5, <2>2 DEF SetUserRole, Exists
        <3>2. account[v] \in Account /\ AccountOK(account[v])
            BY <1>1, <3>1 DEF TablesTyped, AccountInv, AccountsAreOK
        <3>3. local[r].role \in Role
            BY <1>5 DEF SetUserRole, HandlerInv, HandlersCarry, Carries
        <3>4. local[r].role = "admin" => account[v].counter # Nothing
            BY <1>5, <2>2 DEF SetUserRole, AccountInv, FindingsHold
        <3>5. Rewritten(account[v], b)
            BY <3>1, <3>2, <3>3, <3>4, NothingIsNone DEF Rewritten, AccountOK, Account, Counter
        <3>6. account'[v] = b /\ (u # v => account'[u] = account[u])
            BY <1>1, <3>1 DEF TablesTyped
        <3> HIDE DEF b, v
        <3> QED
            BY <3>5, <3>6
    <2> QED
        BY <2>1, <2>2
<1>6. ASSUME NEW r \in Request, StoreDeleteUser(r)
      PROVE  account'[u] = account[u] \/ Deleted(u)
    <2>1. local[r].user \in Name
        BY <1>6 DEF StoreDeleteUser, HandlerInv, HandlersCarry, Carries
    <2>2. CASE u # local[r].user
        BY <1>1, <1>6, <2>2 DEF StoreDeleteUser, TablesTyped
    <2>3. CASE u = local[r].user
        <3>1. account'[u] = Nothing /\ recovery'[u] = {}
            BY <1>1, <1>6, <2>1, <2>3 DEF StoreDeleteUser, TablesTyped
        <3>2. \A n \in Name :
                /\ session'[n] # Nothing => session'[n].user # u
                /\ challenge'[n] # Nothing => challenge'[n].user # u
                /\ invitation'[n] # Nothing => invitation'[n].by # u
            BY <1>6, <2>3 DEF StoreDeleteUser
        <3> QED
            BY <3>1, <3>2 DEF Deleted
    <2> QED
        BY <2>2, <2>3
<1>7. ASSUME NEW r \in Request, TableStep(r)
      PROVE  \/ account' = account \/ UpdateTOTPCounter(r) \/ SetUserRole(r) \/ StoreDeleteUser(r)
             \/ CreateFirstAdmin(r) \/ StoreInvitation(r) \/ StoreUser(r)
    BY <1>7 DEF TableStep, CreateAuthChallenge, CompleteLoginMFA, UseRecoveryCode, CreateSession,
        Logout, UpdatePassword, RevokeUserSessions, ConsumeEnrollment, StoreNewInvitation
<1> QED
    BY <1>2, <1>3, <1>4, <1>5, <1>6, <1>7, StillOrTableStep

\* A session is as it was but for its revocation, or it is made now, for an
\* account that is there.
LEMMA SessionRows ==
    ASSUME HandlerInv, [Next]_vars, NEW s \in Name, session'[s] # Nothing
    PROVE  \/ /\ session[s] # Nothing
              /\ session'[s].user = session[s].user /\ session'[s].mfa = session[s].mfa
              /\ session'[s].token = session[s].token /\ session'[s].code = session[s].code
              /\ session[s].revoked => session'[s].revoked
           \/ s \in Request /\ CreateSession(s) /\ session'[s] = NewSession(s)
<1>1. TypeOK
    BY DEF HandlerInv
<1>2. CASE session' = session
    BY <1>2
<1>3. ASSUME NEW r \in Request, CreateSession(r), s # r
      PROVE  session'[s] = session[s]
    BY <1>1, <1>3 DEF CreateSession, TypeOK
<1>4. ASSUME NEW r \in Request, CreateSession(r), s = r
      PROVE  session'[s] = NewSession(s)
    BY <1>1, <1>4 DEF CreateSession, TypeOK
<1>5. ASSUME NEW r \in Request, NEW q \in Name, Logout(r, q)
      PROVE  session'[s] = session[s] \/ (session[s] # Nothing /\ session'[s] = [session[s] EXCEPT !.revoked = TRUE])
    BY <1>1, <1>5 DEF Logout, TypeOK, Authenticated
<1>6. session[s] # Nothing => session[s] \in Session
    BY <1>1 DEF TypeOK
<1>7. ASSUME session[s] # Nothing, session'[s] = [session[s] EXCEPT !.revoked = TRUE]
      PROVE  /\ session'[s].user = session[s].user /\ session'[s].mfa = session[s].mfa
             /\ session'[s].token = session[s].token /\ session'[s].code = session[s].code
             /\ session'[s].revoked
    BY <1>6, <1>7 DEF Session
<1>8. ASSUME NEW r \in Request, UpdatePassword(r) \/ RevokeUserSessions(r)
      PROVE  session' = Revoked(local[r].user)
    BY <1>8 DEF UpdatePassword, RevokeUserSessions
<1>9. ASSUME NEW r \in Request, StoreDeleteUser(r)
      PROVE  session'[s] = session[s]
    BY <1>9 DEF StoreDeleteUser
<1>10. ASSUME NEW r \in Request, TableStep(r)
       PROVE  \/ session' = session \/ CreateSession(r) \/ (\E q \in Name : Logout(r, q))
              \/ UpdatePassword(r) \/ RevokeUserSessions(r) \/ StoreDeleteUser(r)
    BY <1>10 DEF TableStep, CreateAuthChallenge, CompleteLoginMFA, UseRecoveryCode, UpdateTOTPCounter,
        ConsumeEnrollment, StoreNewInvitation, CreateFirstAdmin, StoreInvitation, StoreUser, SetUserRole
<1>11. ASSUME NEW r \in Request, UpdatePassword(r) \/ RevokeUserSessions(r)
       PROVE  /\ session[s] # Nothing
              /\ session'[s].user = session[s].user /\ session'[s].mfa = session[s].mfa
              /\ session'[s].token = session[s].token /\ session'[s].code = session[s].code
              /\ session[s].revoked => session'[s].revoked
    BY <1>1, <1>8, <1>11, RevokedTyped
<1>12. CASE UNCHANGED <<account, recovery, session, challenge, invitation>>
    BY <1>12
<1>13. ASSUME NEW r \in Request, TableStep(r)
       PROVE  \/ /\ session[s] # Nothing
                 /\ session'[s].user = session[s].user /\ session'[s].mfa = session[s].mfa
                 /\ session'[s].token = session[s].token /\ session'[s].code = session[s].code
                 /\ session[s].revoked => session'[s].revoked
              \/ s \in Request /\ CreateSession(s) /\ session'[s] = NewSession(s)
    <2>1. CASE session' = session
        BY <2>1
    <2>2. CASE CreateSession(r)
        BY <2>2, <1>3, <1>4
    <2>3. CASE \E q \in Name : Logout(r, q)
        BY <2>3, <1>5, <1>7
    <2>4. CASE UpdatePassword(r) \/ RevokeUserSessions(r)
        BY <2>4, <1>11
    <2>5. CASE StoreDeleteUser(r)
        BY <2>5, <1>9
    <2> QED
        BY <1>10, <1>13, <2>1, <2>2, <2>3, <2>4, <2>5
<1> QED
    BY <1>12, <1>13, StillOrTableStep


LEMMA ChallengeRows ==
    ASSUME HandlerInv, [Next]_vars, NEW t \in Name, challenge'[t] # Nothing
    PROVE  \/ challenge'[t] = challenge[t]
           \/ /\ t \in Request /\ CreateAuthChallenge(t)
              /\ challenge'[t] = [purpose |-> local[t].kind, user |-> local[t].user]
<1>1. challenge \in [Name -> Challenge \cup {Nothing}]
    BY DEF HandlerInv, TypeOK
<1>2. ASSUME NEW r \in Request, CreateAuthChallenge(r)
      PROVE  \/ challenge'[t] = challenge[t]
             \/ t = r /\ challenge'[t] = [purpose |-> local[t].kind, user |-> local[t].user]
    BY <1>1, <1>2 DEF CreateAuthChallenge
<1>3. ASSUME NEW r \in Request, NEW q \in Name, NEW code \in Code, CompleteLoginMFA(r, q, code)
      PROVE  challenge'[t] = challenge[t]
    BY <1>1, <1>3 DEF CompleteLoginMFA, Consume
<1>4. ASSUME NEW r \in Request, ConsumeEnrollment(r)
      PROVE  challenge'[t] = challenge[t]
    BY <1>1, <1>4 DEF ConsumeEnrollment, Consume
<1>5. ASSUME NEW r \in Request, StoreDeleteUser(r)
      PROVE  challenge'[t] = challenge[t]
    BY <1>5 DEF StoreDeleteUser
<1>6. ASSUME NEW r \in Request, TableStep(r)
      PROVE  \/ challenge' = challenge \/ CreateAuthChallenge(r) \/ ConsumeEnrollment(r) \/ StoreDeleteUser(r)
             \/ \E q \in Name, code \in Code : CompleteLoginMFA(r, q, code)
    BY <1>6 DEF TableStep, UseRecoveryCode, UpdateTOTPCounter, CreateSession, Logout, UpdatePassword,
        RevokeUserSessions, StoreNewInvitation, CreateFirstAdmin, StoreInvitation, StoreUser, SetUserRole
<1> QED
    BY <1>2, <1>3, <1>4, <1>5, <1>6, StillOrTableStep

LEMMA InvitationRows ==
    ASSUME HandlerInv, [Next]_vars, NEW i \in Name, invitation'[i] # Nothing
    PROVE  \/ /\ invitation[i] # Nothing /\ invitation'[i].by = invitation[i].by
              /\ invitation[i].used => invitation'[i].used
           \/ /\ i \in Request /\ StoreNewInvitation(i)
              /\ invitation'[i] = [role |-> local[i].role, by |-> local[i].user, used |-> FALSE]
<1>1. invitation \in [Name -> Invitation \cup {Nothing}]
    BY DEF HandlerInv, TypeOK
<1>2. ASSUME NEW r \in Request, StoreInvitation(r)
      PROVE  \/ invitation'[i] = invitation[i]
             \/ /\ invitation[i] # Nothing /\ invitation'[i].by = invitation[i].by
                /\ invitation[i].used => invitation'[i].used
    <2> DEFINE j == local[r].origin
    <2>1. j \in Name /\ invitation[j] # Nothing /\ invitation' = [invitation EXCEPT ![j].used = TRUE]
        BY <1>2 DEF StoreInvitation
    <2>2. invitation[j] \in Invitation
        BY <1>1, <2>1
    <2>3. i = j => invitation'[i] = [invitation[i] EXCEPT !.used = TRUE]
        BY <1>1, <2>1
    <2>4. i # j => invitation'[i] = invitation[i]
        BY <1>1, <2>1
    <2> HIDE DEF j
    <2> QED
        BY <2>1, <2>2, <2>3, <2>4 DEF Invitation
<1>3. ASSUME NEW r \in Request, StoreNewInvitation(r)
      PROVE  \/ invitation'[i] = invitation[i]
             \/ i = r /\ invitation'[i] = [role |-> local[i].role, by |-> local[i].user, used |-> FALSE]
    BY <1>1, <1>3 DEF StoreNewInvitation
<1>4. ASSUME NEW r \in Request, StoreDeleteUser(r)
      PROVE  invitation'[i] = invitation[i]
    BY <1>4 DEF StoreDeleteUser
<1>5. ASSUME NEW r \in Request, TableStep(r)
      PROVE  \/ invitation' = invitation \/ StoreInvitation(r) \/ StoreNewInvitation(r) \/ StoreDeleteUser(r)
    BY <1>5 DEF TableStep, UseRecoveryCode, UpdateTOTPCounter, CreateSession, Logout, UpdatePassword,
        RevokeUserSessions, CreateAuthChallenge, CompleteLoginMFA, ConsumeEnrollment, CreateFirstAdmin,
        StoreUser, SetUserRole
<1> QED
    BY <1>2, <1>3, <1>4, <1>5, StillOrTableStep

LEMMA RecoveryRows ==
    ASSUME HandlerInv, [Next]_vars, NEW u \in Name
    PROVE  recovery'[u] \subseteq recovery[u] \/ Inserted(u)
<1>1. recovery \in [Name -> SUBSET RecoveryCode]
    BY DEF HandlerInv, TypeOK
<1>2. ASSUME NEW r \in Request, UseRecoveryCode(r)
      PROVE  recovery'[u] \subseteq recovery[u]
    BY <1>1, <1>2 DEF UseRecoveryCode
<1>3. ASSUME NEW r \in Request, CreateFirstAdmin(r) \/ StoreInvitation(r) \/ StoreUser(r)
      PROVE  recovery'[u] = recovery[u] \/ Inserted(u)
    <2>1. InsertAccount(r)
        BY <1>3 DEF CreateFirstAdmin, StoreInvitation, StoreUser
    <2>2. u = r => Inserted(u)
        BY <1>3, InsertInserts
    <2>3. u # r => recovery'[u] = recovery[u]
        BY <1>1, <2>1 DEF InsertAccount
    <2> QED
        BY <2>2, <2>3
<1>4. ASSUME NEW r \in Request, StoreDeleteUser(r)
      PROVE  recovery'[u] \subseteq recovery[u]
    BY <1>1, <1>4 DEF StoreDeleteUser
<1>5. ASSUME NEW r \in Request, TableStep(r)
      PROVE  \/ recovery' = recovery \/ UseRecoveryCode(r) \/ StoreDeleteUser(r)
             \/ CreateFirstAdmin(r) \/ StoreInvitation(r) \/ StoreUser(r)
    BY <1>5 DEF TableStep, UpdateTOTPCounter, CreateSession, Logout, UpdatePassword,
        RevokeUserSessions, CreateAuthChallenge, CompleteLoginMFA, ConsumeEnrollment,
        StoreNewInvitation, SetUserRole
<1> QED
    BY <1>2, <1>3, <1>4, <1>5, StillOrTableStep

-----------------------------------------------------------------------------
(* Accounts, and what belongs to them *)

\* An account that is there is there afterwards, or nothing is left of it.
LEMMA ExistsOrDeleted ==
    ASSUME HandlerInv, AccountInv, [Next]_vars, NEW u, Exists(u)
    PROVE  Exists(u)' \/ Deleted(u)
<1>1. u \in Name /\ account[u] # Nothing
    BY DEF Exists
<1>2. \/ account'[u] = account[u] \/ Rewritten(account[u], account'[u])
      \/ Inserted(u) \/ Deleted(u)
    BY <1>1, AccountRows
<1> QED
    BY <1>1, <1>2 DEF Exists, Rewritten, Inserted

LEMMA NothingOutlivesStep ==
    ASSUME HandlerInv, AccountInv, [Next]_vars
    PROVE  NothingOutlivesItsAccount'
<1>0. NothingOutlivesItsAccount
    BY DEF AccountInv
<1> SUFFICES ASSUME NEW n \in Name
             PROVE  /\ session'[n] # Nothing => Exists(session[n].user)'
                    /\ challenge'[n] # Nothing /\ challenge'[n].purpose = "login_mfa"
                         => Exists(challenge[n].user)'
                    /\ invitation'[n] # Nothing => Exists(invitation[n].by)'
                    /\ recovery'[n] # {} => Exists(n)'
    BY DEF NothingOutlivesItsAccount
<1>1. ASSUME session'[n] # Nothing
      PROVE  Exists(session[n].user)'
    <2>1. CASE session[n] # Nothing /\ session'[n].user = session[n].user
        <3>1. Exists(session[n].user)
            BY <1>0, <2>1 DEF NothingOutlivesItsAccount
        <3>2. account'[session[n].user] # Nothing \/ Deleted(session[n].user)
            BY <3>1, ExistsOrDeleted DEF Exists
        <3> QED
            BY <1>1, <2>1, <3>1, <3>2 DEF Deleted, Exists
    <2>2. CASE n \in Request /\ CreateSession(n) /\ session'[n] = NewSession(n)
        BY <2>2 DEF CreateSession, NewSession, Exists
    <2> QED
        BY <1>1, <2>1, <2>2, SessionRows
<1>2. ASSUME challenge'[n] # Nothing, challenge'[n].purpose = "login_mfa"
      PROVE  Exists(challenge[n].user)'
    <2>1. CASE challenge'[n] = challenge[n]
        <3>1. Exists(challenge[n].user)
            BY <1>0, <1>2, <2>1 DEF NothingOutlivesItsAccount
        <3>2. account'[challenge[n].user] # Nothing \/ Deleted(challenge[n].user)
            BY <3>1, ExistsOrDeleted DEF Exists
        <3> QED
            BY <1>2, <2>1, <3>1, <3>2 DEF Deleted, Exists
    <2>2. CASE /\ n \in Request /\ CreateAuthChallenge(n)
               /\ challenge'[n] = [purpose |-> local[n].kind, user |-> local[n].user]
        BY <1>2, <2>2 DEF CreateAuthChallenge, Exists
    <2> QED
        BY <1>2, <2>1, <2>2, ChallengeRows
<1>3. ASSUME invitation'[n] # Nothing
      PROVE  Exists(invitation[n].by)'
    <2>1. CASE invitation[n] # Nothing /\ invitation'[n].by = invitation[n].by
        <3>1. Exists(invitation[n].by)
            BY <1>0, <2>1 DEF NothingOutlivesItsAccount
        <3>2. account'[invitation[n].by] # Nothing \/ Deleted(invitation[n].by)
            BY <3>1, ExistsOrDeleted DEF Exists
        <3> QED
            BY <1>3, <2>1, <3>1, <3>2 DEF Deleted, Exists
    <2>2. CASE /\ n \in Request /\ StoreNewInvitation(n)
               /\ invitation'[n] = [role |-> local[n].role, by |-> local[n].user, used |-> FALSE]
        BY <2>2 DEF StoreNewInvitation, Exists
    <2> QED
        BY <1>3, <2>1, <2>2, InvitationRows
<1>4. ASSUME recovery'[n] # {}
      PROVE  Exists(n)'
    <2>1. CASE Inserted(n)
        BY <2>1 DEF Inserted, Exists
    <2>2. CASE recovery'[n] \subseteq recovery[n]
        <3>1. Exists(n)
            BY <1>0, <1>4, <2>2 DEF NothingOutlivesItsAccount
        <3> QED
            BY <1>4, <3>1, ExistsOrDeleted DEF Deleted
    <2> QED
        BY <2>1, <2>2, RecoveryRows
<1> QED
    BY <1>1, <1>2, <1>3, <1>4


Unborn == {"new", "enrollment", "consume", "insert"}

\* Only the handler of the step moves, and once its account has been made, or
\* cannot be any more, that does not change.
LEMMA OneHandlerMoves ==
    ASSUME TypeOK, NEW r \in Request, Enter(r) \/ Step(r) \/ Abort(r)
    PROVE  /\ \A q \in Request : q # r => pc'[q] = pc[q] /\ local'[q] = local[q]
           /\ pc[r] # "done"
           /\ pc'[r] \in Unborn => pc[r] \in Unborn
<1>1. \E p, l : /\ pc' = [pc EXCEPT ![r] = p] /\ local' = [local EXCEPT ![r] = l]
                /\ pc[r] # "done" /\ (p \in Unborn => pc[r] \in Unborn)
    <2>1. ASSUME NEW p, NEW kind, NEW user, NEW role, NEW token, NEW code, NEW origin,
                 Begin(r, p, kind, user, role, token, code, origin)
          PROVE  \E l : pc' = [pc EXCEPT ![r] = p] /\ local' = [local EXCEPT ![r] = l] /\ pc[r] = "new"
        BY <2>1 DEF Begin, Goto
    <2>2. CASE Enter(r)
        <3>1. \/ \E p, kind, user, role, token, code, origin :
                    Begin(r, p, kind, user, role, token, code, origin)
              \/ \E t \in Name, code \in Code : CompleteLoginMFA(r, t, code)
              \/ \E s \in Name : Logout(r, s)
            BY <2>2 DEF Enter, BeginTOTP, Login, CompleteSetup, AcceptInvitation, ChangePassword,
                CreateInvitation, CreateUser, DeleteUser, ChangeUserRole, Apply
        <3>2. CASE \E p, kind, user, role, token, code, origin :
                    Begin(r, p, kind, user, role, token, code, origin)
            BY <2>1, <3>2 DEF Unborn
        <3>3. CASE \E t \in Name, code \in Code : CompleteLoginMFA(r, t, code)
            BY <3>3 DEF CompleteLoginMFA, Goto, Unborn
        <3>4. CASE \E s \in Name : Logout(r, s)
            BY <3>4 DEF Logout, Finish, Goto, Unborn
        <3> QED
            BY <3>1, <3>2, <3>3, <3>4
    <2>3. CASE FindTOTP(r)
        <3>1. local' = local \/ local' = [local EXCEPT ![r] = [local[r] EXCEPT !.kind = "login"]]
            BY <2>3 DEF FindTOTP, TypeOK
        <3>2. local = [local EXCEPT ![r] = local[r]]
            BY DEF TypeOK
        <3> QED
            BY <2>3, <3>1, <3>2 DEF FindTOTP, Goto, Unborn
    <2>4. ASSUME Welcome(r), pc[r] = "insert"
          PROVE  \E l : /\ pc' = [pc EXCEPT ![r] = "session"] /\ local' = [local EXCEPT ![r] = l]
        <3>1. local' = [local EXCEPT ![r] = [[local[r] EXCEPT !.token = Nothing] EXCEPT !.code = Nothing]]
            BY <2>4 DEF Welcome, TypeOK
        <3> QED
            BY <2>4, <3>1 DEF Welcome, Goto
    <2>5. CASE CreateFirstAdmin(r) \/ StoreInvitation(r)
        BY <2>4, <2>5 DEF CreateFirstAdmin, StoreInvitation, Unborn
    <2>6. CASE \/ LoadCredential(r) \/ UpdateTOTPCounter(r) \/ UseRecoveryCode(r)
               \/ LoadEnrollment(r) \/ ConsumeEnrollment(r)
               \/ FindTarget(r) \/ CountAdmins(r) \/ RequireTOTP(r) \/ SetUserRole(r)
        <3>1. local = [local EXCEPT ![r] = local[r]]
            BY DEF TypeOK
        <3> QED
            BY <2>6, <3>1 DEF LoadCredential, UpdateTOTPCounter, UseRecoveryCode, LoadEnrollment,
                ConsumeEnrollment, FindTarget, CountAdmins, RequireTOTP, SetUserRole, Proceed, Goto, Unborn
    <2>7. CASE \/ CreateAuthChallenge(r) \/ CreateSession(r) \/ UpdatePassword(r) \/ StoreUser(r)
               \/ StoreNewInvitation(r) \/ RevokeUserSessions(r) \/ StoreDeleteUser(r) \/ Abort(r)
        <3>1. Finish(r) /\ pc[r] # "done"
            BY <2>7 DEF CreateAuthChallenge, CreateSession, UpdatePassword, StoreUser, StoreNewInvitation,
                RevokeUserSessions, StoreDeleteUser, Abort, Deny
        <3>2. pc' = [pc EXCEPT ![r] = "done"] /\ local' = [local EXCEPT ![r] = Nothing]
            BY <3>1 DEF Finish, Goto
        <3>3. "done" \notin Unborn
            BY DEF Unborn
        <3> QED
            BY <3>1, <3>2, <3>3
    <2> QED
        BY <2>2, <2>3, <2>5, <2>6, <2>7 DEF Step
<1>2. PICK p, l : /\ pc' = [pc EXCEPT ![r] = p] /\ local' = [local EXCEPT ![r] = l]
                  /\ pc[r] # "done" /\ (p \in Unborn => pc[r] \in Unborn)
    BY <1>1
<1> QED
    BY <1>2 DEF TypeOK

LEMMA PastStays ==
    ASSUME TypeOK, [Next]_vars, NEW u \in Name, Past(u)
    PROVE  Past(u)'
<1>1. ASSUME NEW r \in Request, Enter(r) \/ Step(r) \/ Abort(r)
      PROVE  Past(u)'
    BY <1>1, OneHandlerMoves DEF Past, Unborn, Name
<1>2. CASE Restart
    BY <1>2 DEF Restart, Past, Name
<1>3. CASE Tick \/ UNCHANGED vars
    BY <1>3 DEF Tick, vars, Past
<1> QED
    BY <1>1, <1>2, <1>3 DEF Next


\* After a step each handler is where it was, or it is done or new, or the step
\* was its own.
LEMMA WhoMoved ==
    ASSUME TypeOK, [Next]_vars, NEW q \in Request
    PROVE  \/ pc'[q] = pc[q] /\ local'[q] = local[q]
           \/ pc'[q] \in {"new", "done"}
           \/ Enter(q) \/ Step(q)
<1>1. ASSUME NEW r \in Request, Enter(r) \/ Step(r) \/ Abort(r), q # r
      PROVE  pc'[q] = pc[q] /\ local'[q] = local[q]
    BY <1>1, OneHandlerMoves
<1>2. ASSUME Abort(q)
      PROVE  pc'[q] = "done"
    BY <1>2 DEF Abort, Deny, Finish, Goto, TypeOK
<1>3. CASE Restart
    BY <1>3 DEF Restart
<1>4. CASE Tick \/ UNCHANGED vars
    BY <1>4 DEF Tick, vars
<1> QED
    BY <1>1, <1>2, <1>3, <1>4 DEF Next

\* The account a handler has found has its name for good.
LEMMA FoundIsPast ==
    ASSUME HandlerInv, AccountInv, [Next]_vars, NEW q \in Request, HasFound(q)'
    PROVE  Past(local[q].user)'
<1>0. TypeOK /\ NamesAreNotReused /\ Carries(q, pc[q], local[q])
    BY DEF HandlerInv, HandlersCarry, AccountInv
<1>1. pc'[q] \notin {"new", "done", "target", "enrollment", "consume", "insert"} /\ local'[q].user # Nothing
    BY DEF HasFound
<1>2. HasFound(q) => local[q].user \in Name /\ Past(local[q].user)
    <2>1. HasFound(q) => local[q].user \in Name
        BY <1>0 DEF HasFound, Carries, SignsIn
    <2> QED
        BY <1>0, <2>1 DEF NamesAreNotReused
<1>3. ASSUME NEW u \in Name, Exists(u) \/ Past(u), local'[q].user = u
      PROVE  Past(local[q].user)'
    <2>1. Past(u)
        BY <1>0, <1>3 DEF NamesAreNotReused
    <2>2. u \in Founder \/ pc'[u] \notin Unborn
        BY <1>0, <2>1, PastStays DEF Past, Unborn
    <2> QED
        BY <1>3, <2>2 DEF Past, Unborn
<1>4. CASE pc'[q] = pc[q] /\ local'[q].user = local[q].user
    <2>1. HasFound(q)
        BY <1>1, <1>4 DEF HasFound
    <2> QED
        BY <1>2, <1>3, <1>4, <2>1
<1>5. CASE Enter(q)
    <2>1. ASSUME NEW p, NEW kind, NEW user, NEW role, NEW token, NEW code, NEW origin,
                 Begin(q, p, kind, user, role, token, code, origin)
          PROVE  pc'[q] = p /\ local'[q].user = user
        BY <1>0, <2>1 DEF Begin, Goto, TypeOK
    <2>2. ASSUME NEW purpose \in Purpose, BeginTOTP(q, purpose)
          PROVE  FALSE
        BY <1>1, <2>1, <2>2 DEF BeginTOTP
    <2>3. ASSUME NEW u \in Name, Login(q, u)
          PROVE  Past(local[q].user)'
        BY <1>3, <2>1, <2>3 DEF Login
    <2>4. ASSUME NEW t \in Name, NEW code \in Code, CompleteLoginMFA(q, t, code)
          PROVE  Past(local[q].user)'
        <3>1. Exists(challenge[t].user)
            BY <2>4 DEF CompleteLoginMFA, AccountInv, NothingOutlivesItsAccount
        <3>2. local'[q].user = challenge[t].user
            BY <1>0, <2>4 DEF CompleteLoginMFA, TypeOK
        <3> QED
            BY <1>3, <3>1, <3>2 DEF Exists
    <2>5. ASSUME NEW role, NEW t, NEW code, NEW origin, Apply(q, role, t, code, origin)
          PROVE  FALSE
        <3>1. pc'[q] = "enrollment" \/ pc'[q] = "insert"
            BY <2>1, <2>5 DEF Apply
        <3> QED
            BY <1>1, <3>1
    <2>6. ASSUME NEW s \in Name, ChangePassword(q, s)
          PROVE  Past(local[q].user)'
        BY <1>0, <1>3, <2>1, <2>6, AuthenticatedIsTyped DEF ChangePassword
    <2>7. ASSUME NEW s \in Name, NEW role \in Role, CreateInvitation(q, s, role)
          PROVE  Past(local[q].user)'
        BY <1>0, <1>3, <2>1, <2>7, AuthenticatedIsTyped DEF CreateInvitation, Administrator
    <2>8. ASSUME NEW s \in Name, Logout(q, s)
          PROVE  FALSE
        BY <1>0, <1>1, <2>8 DEF Logout, Finish, Goto, TypeOK
    <2>9. ASSUME NEW s \in Name, NEW u \in Name, NEW role \in Role,
                 DeleteUser(q, s, u) \/ ChangeUserRole(q, s, u, role)
          PROVE  FALSE
        <3>1. pc'[q] = "target"
            BY <2>1, <2>9 DEF DeleteUser, ChangeUserRole
        <3> QED
            BY <1>1, <3>1
    <2> QED
        BY <1>5, <2>2, <2>3, <2>4, <2>5, <2>6, <2>7, <2>8, <2>9
        DEF Enter, CompleteSetup, AcceptInvitation, CreateUser
<1>6. CASE Step(q)
    <2>1. CASE \/ FindTOTP(q) \/ LoadCredential(q) \/ UpdateTOTPCounter(q) \/ UseRecoveryCode(q)
               \/ CountAdmins(q) \/ RequireTOTP(q) \/ SetUserRole(q)
        <3>1. pc[q] \in {"find_totp", "credential", "counter", "recovery", "count", "totp", "role"}
            BY <2>1 DEF FindTOTP, LoadCredential, UpdateTOTPCounter, UseRecoveryCode, CountAdmins,
                RequireTOTP, SetUserRole
        <3>2. local' = local \/ local' = [local EXCEPT ![q].kind = "login"]
            BY <2>1 DEF FindTOTP, LoadCredential, UpdateTOTPCounter, UseRecoveryCode, CountAdmins,
                RequireTOTP, SetUserRole
        <3>3. local[q] \in Local /\ local[q].user \in Name
            BY <1>0, <3>1 DEF Carries, SignsIn
        <3>4. local'[q].user = local[q].user
            BY <1>0, <3>2, <3>3 DEF TypeOK, Local
        <3>5. HasFound(q)
            BY <3>1, <3>3, NothingIsNone DEF HasFound
        <3> QED
            BY <1>2, <1>3, <3>4, <3>5
    <2>2. CASE FindTarget(q)
        BY <1>3, <2>2 DEF FindTarget, Exists
    <2>3. CASE LoadEnrollment(q) \/ ConsumeEnrollment(q)
        BY <1>0, <1>1, <2>3 DEF LoadEnrollment, ConsumeEnrollment, Goto, TypeOK
    <2>4. CASE CreateFirstAdmin(q) \/ StoreInvitation(q)
        <3>1. Welcome(q) /\ local[q] \in Local /\ local[q].user = q
            BY <1>0, <2>4 DEF CreateFirstAdmin, StoreInvitation, Carries, Applies
        <3>2. pc'[q] = "session" /\ local'[q].user = q
            BY <1>0, <3>1 DEF Welcome, Goto, TypeOK, Local
        <3> QED
            BY <3>2 DEF Past
    <2>5. CASE \/ CreateAuthChallenge(q) \/ CreateSession(q) \/ UpdatePassword(q) \/ StoreUser(q)
               \/ StoreNewInvitation(q) \/ RevokeUserSessions(q) \/ StoreDeleteUser(q)
        <3>1. Finish(q)
            BY <2>5 DEF CreateAuthChallenge, CreateSession, UpdatePassword, StoreUser, StoreNewInvitation,
                RevokeUserSessions, StoreDeleteUser
        <3> QED
            BY <1>0, <1>1, <3>1 DEF Finish, Goto, TypeOK
    <2> QED
        BY <1>6, <2>1, <2>2, <2>3, <2>4, <2>5 DEF Step
<1> QED
    BY <1>0, <1>1, <1>4, <1>5, <1>6, WhoMoved


\* An account of a name that has been used is not inserted.
LEMMA PastIsNotInserted ==
    ASSUME NEW u \in Name, Past(u)
    PROVE  ~Inserted(u)
BY NamesDiffer DEF Past, Inserted

LEMMA NamesStayUnused ==
    ASSUME HandlerInv, AccountInv, [Next]_vars
    PROVE  NamesAreNotReused'
<1>1. ASSUME NEW u \in Name, Exists(u)'
      PROVE  Past(u)'
    <2>1. account'[u] # Nothing
        BY <1>1 DEF Exists
    <2>2. CASE account[u] # Nothing
        BY <2>2, PastStays DEF HandlerInv, AccountInv, NamesAreNotReused, Exists
    <2>3. CASE Inserted(u)
        BY <2>3 DEF Inserted, Past
    <2> QED
        BY <2>1, <2>2, <2>3, AccountRows DEF Rewritten, Deleted
<1> QED
    BY <1>1, FoundIsPast DEF NamesAreNotReused

\* Whether an account that a handler has found has TOTP does not change.
LEMMA FindingsStay ==
    ASSUME HandlerInv, AccountInv, [Next]_vars, NEW u \in Name, Past(u), Exists(u)'
    PROVE  Exists(u) /\ (account'[u].counter = Nothing <=> account[u].counter = Nothing)
BY AccountRows, PastIsNotInserted DEF Exists, Rewritten, Deleted

LEMMA FindingsHoldStep ==
    ASSUME HandlerInv, AccountInv, [Next]_vars
    PROVE  FindingsHold'
<1> SUFFICES ASSUME NEW q \in Request
             PROVE  /\ pc'[q] = "session" /\ ~Verified(q)' /\ Exists(local[q].user)' =>
                          account'[local'[q].user].counter = Nothing
                    /\ pc'[q] = "role" /\ local'[q].role = "admin" /\ Exists(local[q].user)' =>
                          account'[local'[q].user].counter # Nothing
    BY DEF FindingsHold
<1>0. /\ TypeOK /\ NamesAreNotReused /\ FindingsHold /\ Carries(q, pc[q], local[q])
    BY DEF HandlerInv, HandlersCarry, AccountInv
<1>1. CASE pc'[q] = pc[q] /\ local'[q] = local[q]
    <2> DEFINE u == local[q].user
    <2>1. ASSUME pc[q] \in {"session", "role"}
          PROVE  u \in Name /\ Past(u)
        <3>1. u \in Name
            BY <1>0, <2>1 DEF Carries, SignsIn
        <3>2. HasFound(q)
            BY <2>1, <3>1, NothingIsNone DEF HasFound
        <3> QED
            BY <1>0, <3>1, <3>2 DEF NamesAreNotReused
    <2>2. ASSUME pc[q] \in {"session", "role"}, account'[u] # Nothing
          PROVE  Exists(u) /\ (account'[u].counter = Nothing <=> account[u].counter = Nothing)
        BY <2>1, <2>2, FindingsStay DEF Exists
    <2>3. (Verified(q)') = Verified(q)
        BY <1>1 DEF Verified
    <2> QED
        BY <1>0, <1>1, <2>2, <2>3 DEF FindingsHold, Exists
<1>2. CASE Enter(q)
    <2>1. \/ \E p, kind, user, role, token, code, origin :
                p \notin {"session", "role"} /\ Begin(q, p, kind, user, role, token, code, origin)
          \/ \E t \in Name, code \in Code : CompleteLoginMFA(q, t, code)
          \/ \E s \in Name : Logout(q, s)
        BY <1>2 DEF Enter, BeginTOTP, Login, CompleteSetup, AcceptInvitation, ChangePassword,
            CreateInvitation, CreateUser, DeleteUser, ChangeUserRole, Apply
    <2>2. pc'[q] \notin {"session", "role"}
        BY <1>0, <2>1 DEF Begin, CompleteLoginMFA, Logout, Finish, Goto, TypeOK
    <2> QED
        BY <2>2
<1>3. CASE Step(q)
    <2>1. CASE FindTOTP(q)
        <3>1. local[q] \in Local /\ local[q].user \in Name
            BY <1>0, <2>1 DEF FindTOTP, Carries
        <3>2. local'[q].user = local[q].user /\ account' = account /\ pc'[q] # "role"
            BY <1>0, <2>1, <3>1 DEF FindTOTP, TypeOK, Local, Goto, tables
        <3>3. pc'[q] = "session" => ~HasTOTP(local[q].user)
            BY <1>0, <2>1 DEF FindTOTP, Goto, TypeOK
        <3> QED
            BY <3>2, <3>3 DEF HasTOTP, Exists
    <2>2. CASE UpdateTOTPCounter(q) \/ UseRecoveryCode(q)
        <3>1. local[q].kind = "mfa" /\ local'[q] = local[q] /\ pc'[q] = "session"
            BY <1>0, <2>2 DEF UpdateTOTPCounter, UseRecoveryCode, Carries, SignsIn, Goto, TypeOK
        <3> QED
            BY <3>1 DEF Verified
    <2>3. CASE CreateFirstAdmin(q) \/ StoreInvitation(q)
        <3>1. Welcome(q) /\ InsertAccount(q) /\ pc[q] = "insert"
            BY <2>3 DEF CreateFirstAdmin, StoreInvitation
        <3>2. /\ local[q] \in Local /\ Applies(q, local[q])
              /\ local[q].role = "admin" \/ local[q].code = Nothing
            BY <1>0, <3>1 DEF Carries, Enrolls
        <3>3. /\ pc'[q] = "session" /\ local'[q].user = q /\ local'[q].kind = "account"
              /\ local'[q].role = local[q].role
            BY <1>0, <3>1, <3>2 DEF Welcome, Goto, TypeOK, Local, Applies
        <3>4. account'[q] = NewAccount(q)
            BY <1>0, <3>1, InsertTyped
        <3> QED
            BY <3>2, <3>3, <3>4 DEF Verified, NewAccount
    <2>4. CASE LoadCredential(q) \/ LoadEnrollment(q) \/ ConsumeEnrollment(q) \/ SetUserRole(q)
        <3>1. pc'[q] \notin {"session", "role"}
            BY <1>0, <2>4 DEF LoadCredential, LoadEnrollment, ConsumeEnrollment, SetUserRole, Goto, TypeOK
        <3> QED
            BY <3>1
    <2>5. CASE FindTarget(q) \/ CountAdmins(q)
        <3>1. local'[q] = local[q] /\ pc'[q] # "session" /\ (pc'[q] = "role" => local[q].role # "admin")
            BY <1>0, <2>5 DEF FindTarget, CountAdmins, Proceed, Goto, TypeOK
        <3> QED
            BY <3>1
    <2>6. CASE RequireTOTP(q)
        <3>1. local'[q] = local[q] /\ pc'[q] = "role" /\ account' = account /\ HasTOTP(local[q].user)
            BY <1>0, <2>6 DEF RequireTOTP, Goto, TypeOK, tables
        <3> QED
            BY <3>1 DEF HasTOTP
    <2>7. CASE \/ CreateAuthChallenge(q) \/ CreateSession(q) \/ UpdatePassword(q) \/ StoreUser(q)
               \/ StoreNewInvitation(q) \/ RevokeUserSessions(q) \/ StoreDeleteUser(q)
        <3>1. Finish(q)
            BY <2>7 DEF CreateAuthChallenge, CreateSession, UpdatePassword, StoreUser, StoreNewInvitation,
                RevokeUserSessions, StoreDeleteUser
        <3>2. pc'[q] = "done"
            BY <1>0, <3>1 DEF Finish, Goto, TypeOK
        <3> QED
            BY <3>2
    <2> QED
        BY <1>3, <2>1, <2>2, <2>3, <2>4, <2>5, <2>6, <2>7 DEF Step
<1>4. CASE pc'[q] \in {"new", "done"}
    BY <1>4
<1> QED
    BY <1>0, <1>1, <1>2, <1>3, <1>4, WhoMoved

LEMMA AccountsHold ==
    ASSUME HandlerInv, AccountInv, [Next]_vars
    PROVE  AccountInv'
<1>1. AccountsAreOK'
    <2> SUFFICES ASSUME NEW u \in Name, account'[u] # Nothing
                 PROVE  AccountOK(account[u])'
        BY DEF AccountsAreOK
    <2>1. AccountOK(account'[u])
        BY AccountRows DEF AccountInv, AccountsAreOK, Rewritten, Inserted, Deleted
    <2> QED
        BY <2>1 DEF AccountOK
<1>2. WeakSessions'
    <2> SUFFICES ASSUME NEW s \in Name, session'[s] # Nothing, ~session'[s].mfa
                 PROVE  account'[session'[s].user].counter = Nothing
        BY DEF WeakSessions
    <2> DEFINE u == session'[s].user
    <2>1. CASE session[s] # Nothing /\ session[s].user = u /\ ~session[s].mfa
        <3>1. Exists(session[s].user) /\ account[session[s].user].counter = Nothing
            BY <2>1 DEF AccountInv, NothingOutlivesItsAccount, WeakSessions
        <3>2. u \in Name /\ Past(u) /\ account[u].counter = Nothing
            BY <2>1, <3>1 DEF AccountInv, NamesAreNotReused, Exists
        <3>3. account'[u] # Nothing
            BY NothingOutlivesStep DEF NothingOutlivesItsAccount, Exists
        <3> HIDE DEF u
        <3>4. \A v \in Name : v = u => (account'[v].counter = Nothing <=> account[v].counter = Nothing)
            BY <3>2, <3>3, FindingsStay DEF Exists
        <3>5. account'[u].counter = Nothing
            BY <3>2, <3>4
        <3> QED
            BY <3>5 DEF u
    <2>2. CASE s \in Request /\ CreateSession(s) /\ session'[s] = NewSession(s)
        BY <2>2 DEF CreateSession, NewSession, AccountInv, FindingsHold
    <2> QED
        BY <2>1, <2>2, SessionRows
<1> QED
    BY <1>1, <1>2, NamesStayUnused, FindingsHoldStep, NothingOutlivesStep DEF AccountInv


-----------------------------------------------------------------------------
(* Challenges and codes that have opened a session, or are about to *)

Opening(n) ==
    n \in Request /\ pc[n] \in {"credential", "counter", "recovery", "session"} /\ local[n].kind = "mfa"

TokenOf(n) ==
    IF session[n] # Nothing THEN session[n].token
    ELSE IF Opening(n) THEN local[n].token ELSE Nothing

CodeOf(n) ==
    IF session[n] # Nothing THEN session[n].code
    ELSE IF Opening(n) /\ pc[n] = "session" THEN local[n].code ELSE Nothing

UserOf(n) ==
    IF session[n] # Nothing THEN session[n].user
    ELSE IF Opening(n) THEN local[n].user ELSE Nothing

\* There is no such challenge, and there will not be.
Spent(t) == t \in Name /\ challenge[t] = Nothing /\ (t \in Request => pc[t] = "done")

\* The account takes the code no more, and was not enrolled with it.
CodeSpent(code, u) ==
    /\ code \in Counter => /\ account[u].counter # Nothing /\ code <= account[u].counter
                           /\ account[u].enrolled < code
    /\ code \notin recovery[u]

TokensAreSpent == \A n \in Name : TokenOf(n) # Nothing => Spent(TokenOf(n))
TokensDiffer == \A n, m \in Name : n # m /\ TokenOf(n) # Nothing => TokenOf(n) # TokenOf(m)
CodesAreSpent ==
    \A n \in Name : CodeOf(n) # Nothing =>
        /\ CodeOf(n) \in Code /\ TokenOf(n) # Nothing
        /\ Exists(UserOf(n)) => CodeSpent(CodeOf(n), UserOf(n))
CodesDifferPerUser ==
    \A n, m \in Name : n # m /\ CodeOf(n) # Nothing /\ UserOf(n) = UserOf(m) => CodeOf(n) # CodeOf(m)

SecretInv == TokensAreSpent /\ TokensDiffer /\ CodesAreSpent /\ CodesDifferPerUser

\* A login that is being completed has begun now, or goes on with what it had.
LEMMA OpeningStep ==
    ASSUME HandlerInv, [Next]_vars, NEW n \in Name, Opening(n)'
    PROVE  \/ /\ Opening(n) /\ local'[n] = local[n]
              /\ pc'[n] = "session" =>
                    pc[n] = "session" \/ UpdateTOTPCounter(n) \/ UseRecoveryCode(n)
           \/ /\ pc'[n] # "session"
              /\ \E t \in Name, code \in Code : CompleteLoginMFA(n, t, code) /\ local'[n].token = t
<1>0. TypeOK
    BY DEF HandlerInv
<1>1. n \in Request /\ pc'[n] \in {"credential", "counter", "recovery", "session"} /\ local'[n].kind = "mfa"
    BY DEF Opening
<1>2. Carries(n, pc[n], local[n])
    BY <1>1 DEF HandlerInv, HandlersCarry
<1>3. CASE pc'[n] = pc[n] /\ local'[n] = local[n]
    BY <1>1, <1>3 DEF Opening
<1>4. CASE Enter(n)
    <2>1. \/ \E p, kind, user, role, token, code, origin :
                /\ p \notin {"credential", "counter", "recovery", "session"}
                /\ Begin(n, p, kind, user, role, token, code, origin)
          \/ \E t \in Name, code \in Code : CompleteLoginMFA(n, t, code)
          \/ \E s \in Name : Logout(n, s)
        BY <1>4 DEF Enter, BeginTOTP, Login, CompleteSetup, AcceptInvitation, ChangePassword,
            CreateInvitation, CreateUser, DeleteUser, ChangeUserRole, Apply
    <2>2. \A p, kind, user, role, token, code, origin :
                Begin(n, p, kind, user, role, token, code, origin) => pc'[n] = p
        BY <1>0, <1>1 DEF Begin, Goto, TypeOK
    <2>3. \A s : Logout(n, s) => pc'[n] = "done"
        BY <1>0, <1>1 DEF Logout, Finish, Goto, TypeOK
    <2>4. PICK t \in Name, code \in Code : CompleteLoginMFA(n, t, code)
        BY <1>1, <2>1, <2>2, <2>3
    <2>5. pc'[n] = "credential" /\ local'[n].token = t
        BY <1>0, <1>1, <2>4 DEF CompleteLoginMFA, Goto, TypeOK
    <2> QED
        BY <2>4, <2>5
<1>5. CASE Step(n)
    <2>1. CASE LoadCredential(n) \/ UpdateTOTPCounter(n) \/ UseRecoveryCode(n)
        <3>1. /\ local'[n] = local[n] /\ pc[n] \in {"credential", "counter", "recovery"}
              /\ LoadCredential(n) => pc'[n] # "session"
            BY <1>0, <1>1, <2>1 DEF LoadCredential, UpdateTOTPCounter, UseRecoveryCode, Goto, TypeOK
        <3> QED
            BY <1>1, <2>1, <3>1 DEF Opening
    <2>2. CASE FindTOTP(n)
        <3>1. local[n] \in Local /\ local[n].kind = "login_mfa"
            BY <1>2, <2>2 DEF FindTOTP, Carries
        <3>2. local'[n].kind \in {"login_mfa", "login"}
            BY <1>0, <1>1, <2>2, <3>1 DEF FindTOTP, TypeOK, Local
        <3> QED
            BY <1>1, <3>2
    <2>3. CASE CreateFirstAdmin(n) \/ StoreInvitation(n)
        <3>1. local[n] \in Local /\ local[n].kind = "account" /\ Welcome(n)
            BY <1>2, <2>3 DEF CreateFirstAdmin, StoreInvitation, Carries, Applies
        <3>2. local'[n].kind = "account"
            BY <1>0, <1>1, <3>1 DEF Welcome, TypeOK, Local
        <3> QED
            BY <1>1, <3>2
    <2>4. CASE \/ LoadEnrollment(n) \/ ConsumeEnrollment(n) \/ FindTarget(n) \/ CountAdmins(n)
               \/ RequireTOTP(n) \/ SetUserRole(n)
        <3>1. pc'[n] \notin {"credential", "counter", "recovery", "session"}
            BY <1>0, <1>1, <2>4 DEF LoadEnrollment, ConsumeEnrollment, FindTarget, CountAdmins, Proceed,
                RequireTOTP, SetUserRole, Goto, TypeOK
        <3> QED
            BY <1>1, <3>1
    <2>5. CASE \/ CreateAuthChallenge(n) \/ CreateSession(n) \/ UpdatePassword(n) \/ StoreUser(n)
               \/ StoreNewInvitation(n) \/ RevokeUserSessions(n) \/ StoreDeleteUser(n)
        <3>1. Finish(n)
            BY <2>5 DEF CreateAuthChallenge, CreateSession, UpdatePassword, StoreUser, StoreNewInvitation,
                RevokeUserSessions, StoreDeleteUser
        <3>2. pc'[n] = "done"
            BY <1>0, <1>1, <3>1 DEF Finish, Goto, TypeOK
        <3> QED
            BY <1>1, <3>2
    <2> QED
        BY <1>5, <2>1, <2>2, <2>3, <2>4, <2>5 DEF Step
<1> QED
    BY <1>0, <1>1, <1>3, <1>4, <1>5, WhoMoved

\* What opened a session, or opens one, is what opened it before, or a challenge
\* that is consumed now.
LEMMA TokenStep ==
    ASSUME HandlerInv, [Next]_vars, NEW n \in Name, (TokenOf(n)') # Nothing
    PROVE  \/ (TokenOf(n)') = TokenOf(n)
           \/ n \in Request /\ \E t \in Name, code \in Code :
                CompleteLoginMFA(n, t, code) /\ (TokenOf(n)') = t
<1>1. CASE session'[n] # Nothing
    <2>1. CASE session[n] # Nothing /\ session'[n].token = session[n].token
        BY <1>1, <2>1 DEF TokenOf
    <2>2. CASE n \in Request /\ CreateSession(n) /\ session'[n] = NewSession(n)
        <3>1. pc[n] = "session" /\ session[n] = Nothing /\ Carries(n, pc[n], local[n])
            BY <2>2 DEF CreateSession, HandlerInv, HandlersCarry, MadeWhenDone
        <3>2. local[n].kind = "mfa" \/ local[n].token = Nothing
            BY <3>1 DEF Carries, SignsIn
        <3>3. (TokenOf(n)') = local[n].token
            BY <1>1, <2>2 DEF TokenOf, NewSession
        <3> QED
            BY <2>2, <3>1, <3>2, <3>3 DEF TokenOf, Opening
    <2> QED
        BY <1>1, <2>1, <2>2, SessionRows
<1>2. CASE session'[n] = Nothing
    <2>1. Opening(n)' /\ (TokenOf(n)') = local'[n].token
        BY <1>2 DEF TokenOf
    <2>2. CASE Opening(n) /\ local'[n] = local[n]
        <3>1. session[n] = Nothing
            BY <2>2 DEF Opening, HandlerInv, MadeWhenDone
        <3> QED
            BY <2>1, <2>2, <3>1 DEF TokenOf
    <2>3. CASE \E t \in Name, code \in Code : CompleteLoginMFA(n, t, code) /\ local'[n].token = t
        BY <2>1, <2>3 DEF Opening
    <2> QED
        BY <2>1, <2>2, <2>3, OpeningStep
<1> QED
    BY <1>1, <1>2

Spends(n) == n \in Request /\ (UpdateTOTPCounter(n) \/ UseRecoveryCode(n))

\* The same of codes.
LEMMA CodeStep ==
    ASSUME HandlerInv, [Next]_vars, NEW n \in Name, (CodeOf(n)') # Nothing
    PROVE  /\ (TokenOf(n)') = TokenOf(n) /\ (UserOf(n)') = UserOf(n)
           /\ \/ (CodeOf(n)') = CodeOf(n)
              \/ /\ Spends(n) /\ Opening(n)
                 /\ (CodeOf(n)') = local[n].code /\ UserOf(n) = local[n].user /\ TokenOf(n) = local[n].token
<1>1. CASE session'[n] # Nothing
    <2>1. CASE /\ session[n] # Nothing
               /\ session'[n].user = session[n].user
               /\ session'[n].token = session[n].token /\ session'[n].code = session[n].code
        BY <1>1, <2>1 DEF TokenOf, CodeOf, UserOf
    <2>2. CASE n \in Request /\ CreateSession(n) /\ session'[n] = NewSession(n)
        <3>1. pc[n] = "session" /\ session[n] = Nothing /\ Carries(n, pc[n], local[n])
            BY <2>2 DEF CreateSession, HandlerInv, HandlersCarry, MadeWhenDone
        <3>2. local[n].kind = "mfa" \/ local[n].code = Nothing
            BY <3>1 DEF Carries, SignsIn
        <3>3. (TokenOf(n)') = local[n].token /\ (CodeOf(n)') = local[n].code /\ (UserOf(n)') = local[n].user
            BY <1>1, <2>2 DEF TokenOf, CodeOf, UserOf, NewSession
        <3> QED
            BY <2>2, <3>1, <3>2, <3>3 DEF TokenOf, CodeOf, UserOf, Opening
    <2> QED
        BY <1>1, <2>1, <2>2, SessionRows
<1>2. CASE session'[n] = Nothing
    <2>1. /\ Opening(n)' /\ pc'[n] = "session" /\ (TokenOf(n)') = local'[n].token
          /\ (CodeOf(n)') = local'[n].code /\ (UserOf(n)') = local'[n].user
        BY <1>2 DEF TokenOf, CodeOf, UserOf
    <2>2. /\ Opening(n) /\ local'[n] = local[n]
          /\ pc[n] = "session" \/ UpdateTOTPCounter(n) \/ UseRecoveryCode(n)
        BY <2>1, OpeningStep
    <2>3. session[n] = Nothing
        BY <2>2 DEF Opening, HandlerInv, MadeWhenDone
    <2> QED
        BY <2>1, <2>2, <2>3 DEF TokenOf, CodeOf, UserOf, Opening, Spends
<1> QED
    BY <1>1, <1>2


LEMMA DoneStays ==
    ASSUME HandlerInv, [Next]_vars, NEW t \in Request, pc[t] = "done"
    PROVE  pc'[t] = "done"
<1>1. ASSUME NEW r \in Request, Enter(r) \/ Step(r) \/ Abort(r)
      PROVE  pc'[t] = "done"
    BY <1>1, OneHandlerMoves DEF HandlerInv
<1>2. CASE Restart
    BY <1>2 DEF Restart
<1>3. CASE Tick \/ UNCHANGED vars
    BY <1>3 DEF Tick, vars
<1> QED
    BY <1>1, <1>2, <1>3 DEF Next

LEMMA SpentStays ==
    ASSUME HandlerInv, [Next]_vars, NEW t, Spent(t)
    PROVE  Spent(t)'
<1>0. TypeOK /\ t \in Name /\ challenge[t] = Nothing
    BY DEF HandlerInv, Spent
<1>1. t \in Request => pc'[t] = "done"
    BY DoneStays DEF Spent
<1>2. challenge'[t] = Nothing
    <2>1. ASSUME t \in Request
          PROVE  ~CreateAuthChallenge(t)
        BY <2>1 DEF Spent, CreateAuthChallenge
    <2> QED
        BY <1>0, <2>1, ChallengeRows
<1> QED
    BY <1>0, <1>1, <1>2 DEF Spent

\* The challenge that a login consumes was not spent before.
LEMMA ConsumedIsSpent ==
    ASSUME HandlerInv, [Next]_vars, NEW r \in Request, NEW t \in Name, NEW code,
           CompleteLoginMFA(r, t, code)
    PROVE  challenge[t] # Nothing /\ Spent(t)' /\ pc[r] = "new" /\ pc'[r] = "credential"
           /\ \A q \in Request : q # r => pc'[q] = pc[q]
<1>1. /\ challenge[t] # Nothing /\ challenge' = [challenge EXCEPT ![t] = Nothing]
      /\ pc[r] = "new" /\ pc' = [pc EXCEPT ![r] = "credential"]
    BY DEF CompleteLoginMFA, Consume, Goto
<1>2. /\ pc'[r] = "credential" /\ (\A q \in Request : q # r => pc'[q] = pc[q])
      /\ challenge'[t] = Nothing
    BY <1>1 DEF HandlerInv, TypeOK
<1>3. t \in Request => pc[t] = "done"
    BY <1>1 DEF HandlerInv, MadeWhenDone
<1> QED
    BY <1>1, <1>2, <1>3 DEF Spent

LEMMA TokensHold ==
    ASSUME HandlerInv, TokensAreSpent, TokensDiffer, [Next]_vars
    PROVE  TokensAreSpent' /\ TokensDiffer'
<1>1. ASSUME NEW n \in Name, (TokenOf(n)') # Nothing
      PROVE  Spent(TokenOf(n))'
    <2>1. CASE (TokenOf(n)') = TokenOf(n)
        <3>1. Spent(TokenOf(n))
            BY <1>1, <2>1 DEF TokensAreSpent
        <3>2. \A t : Spent(t) => Spent(t)'
            BY SpentStays
        <3>3. \A t : t = TokenOf(n)' => Spent(t)'
            BY <2>1, <3>1, <3>2
        <3> QED
            BY <3>3 DEF Spent
    <2>2. CASE n \in Request /\ \E t \in Name, code \in Code :
                CompleteLoginMFA(n, t, code) /\ (TokenOf(n)') = t
        <3>1. PICK t \in Name : Spent(t)' /\ (TokenOf(n)') = t
            BY <2>2, ConsumedIsSpent
        <3> QED
            BY <3>1 DEF Spent
    <2> QED
        BY <1>1, <2>1, <2>2, TokenStep
<1>2. ASSUME NEW n \in Name, NEW m \in Name, n # m, (TokenOf(n)') # Nothing, (TokenOf(n)') = TokenOf(m)'
      PROVE  FALSE
    <2> DEFINE Consumes(k) == k \in Request /\ \E t \in Name, code \in Code :
                                CompleteLoginMFA(k, t, code) /\ (TokenOf(k)') = t
    <2>1. \A k \in {n, m} : (TokenOf(k)') = TokenOf(k) \/ Consumes(k)
        BY <1>2, TokenStep
    <2>2. CASE (TokenOf(n)') = TokenOf(n) /\ (TokenOf(m)') = TokenOf(m)
        BY <1>2, <2>2 DEF TokensDiffer
    <2>3. ASSUME NEW k \in {n, m}, NEW j \in {n, m}, Consumes(k), (TokenOf(j)') = TokenOf(j)
          PROVE  FALSE
        <3>1. challenge[TokenOf(k)'] # Nothing
            BY <2>3, ConsumedIsSpent
        <3>2. Spent(TokenOf(j))
            BY <1>2, <2>3 DEF TokensAreSpent
        <3> QED
            BY <1>2, <2>3, <3>1, <3>2 DEF Spent
    <2>4. ASSUME Consumes(n), Consumes(m)
          PROVE  FALSE
        <3>1. pc[m] = "new" /\ pc'[m] = "credential"
            BY <2>4, ConsumedIsSpent
        <3>2. pc'[m] = pc[m]
            BY <1>2, <2>4, ConsumedIsSpent
        <3> QED
            BY <3>1, <3>2
    <2> HIDE DEF Consumes
    <2> QED
        BY <2>1, <2>2, <2>3, <2>4
<1> QED
    BY <1>1, <1>2 DEF TokensAreSpent, TokensDiffer

\* What an account takes no more it does not take later.
LEMMA CodeStaysSpent ==
    ASSUME HandlerInv, AccountInv, [Next]_vars, NEW code \in Code, NEW u \in Name, Past(u),
           account'[u] # Nothing, Exists(u) => CodeSpent(code, u)
    PROVE  CodeSpent(code, u)'
<1>1. ~Inserted(u)
    BY PastIsNotInserted
<1>2. account'[u] = account[u] \/ Rewritten(account[u], account'[u])
    BY <1>1, AccountRows DEF Deleted
<1>3. Exists(u) /\ CodeSpent(code, u)
    BY <1>2 DEF Exists, Rewritten
<1>4. recovery'[u] \subseteq recovery[u]
    BY <1>1, RecoveryRows
<1>5. account[u] \in Account /\ account'[u] \in Account
    BY <1>3, HandlersHold DEF Exists, HandlerInv, TypeOK, AccountInv
<1>6. ASSUME code \in Counter
      PROVE  /\ account'[u].counter # Nothing /\ code <= account'[u].counter
             /\ account'[u].enrolled < code
    <2>1. CASE account'[u] = account[u]
        BY <1>3, <1>6, <2>1 DEF CodeSpent
    <2>2. CASE Rewritten(account[u], account'[u])
        <3>1. /\ account[u].counter # Nothing /\ code <= account[u].counter
              /\ account[u].enrolled < code
              /\ account'[u].enrolled = account[u].enrolled /\ account'[u].counter # Nothing
              /\ account[u].counter <= account'[u].counter
            BY <1>3, <1>6, <2>2 DEF CodeSpent, Rewritten
        <3>2. code \in Int /\ account[u].counter \in Int /\ account'[u].counter \in Int
            BY <1>5, <1>6, <3>1 DEF Account, Counter
        <3> QED
            BY <3>1, <3>2
    <2> QED
        BY <1>2, <2>1, <2>2
<1> QED
    BY <1>3, <1>4, <1>6 DEF CodeSpent

\* The account of a code that has been used has its name for good.
LEMMA UserIsPast ==
    ASSUME HandlerInv, AccountInv, NEW n \in Name, CodeOf(n) # Nothing
    PROVE  UserOf(n) \in Name /\ Past(UserOf(n))
<1>1. CASE session[n] # Nothing
    <2>1. Exists(session[n].user)
        BY <1>1 DEF AccountInv, NothingOutlivesItsAccount
    <2> QED
        BY <1>1, <2>1 DEF AccountInv, NamesAreNotReused, Exists, UserOf
<1>2. CASE session[n] = Nothing
    <2>1. Opening(n) /\ pc[n] = "session" /\ UserOf(n) = local[n].user
        BY <1>2 DEF CodeOf, UserOf
    <2>2. Carries(n, pc[n], local[n]) /\ n \in Request /\ local[n].kind = "mfa"
        BY <2>1 DEF Opening, HandlerInv, HandlersCarry
    <2>3. local[n].user \in Name
        BY <2>1, <2>2 DEF Carries, SignsIn
    <2>4. HasFound(n)
        BY <2>1, <2>3, NothingIsNone DEF HasFound
    <2> QED
        BY <2>1, <2>2, <2>3, <2>4 DEF AccountInv, NamesAreNotReused
<1> QED
    BY <1>1, <1>2

\* A code that is used now was not spent, and is.
LEMMA SpendsCode ==
    ASSUME HandlerInv, AccountInv, [Next]_vars, NEW n \in Name, Spends(n), Opening(n)
    PROVE  LET u == local[n].user
               code == local[n].code
           IN  /\ code \in Code /\ u \in Name /\ Exists(u) /\ local[n].token # Nothing
               /\ ~CodeSpent(code, u) /\ CodeSpent(code, u)'
               /\ pc[n] # "session" /\ pc'[n] = "session" /\ local' = local
               /\ \A q \in Request : q # n => pc'[q] = pc[q]
<1> DEFINE u == local[n].user
           code == local[n].code
<1>0. /\ TypeOK /\ n \in Request /\ local[n].kind = "mfa"
      /\ Carries(n, pc[n], local[n])
    BY DEF HandlerInv, HandlersCarry, Opening
<1>1. u \in Name /\ code \in Code /\ local[n].token # Nothing
    BY <1>0, NothingIsNone DEF Opening, Carries, SignsIn
<1>2. /\ pc[n] # "session" /\ pc'[n] = "session" /\ local' = local
      /\ \A q \in Request : q # n => pc'[q] = pc[q]
    BY <1>0 DEF Spends, UpdateTOTPCounter, UseRecoveryCode, Goto, TypeOK
<1>3. CASE UpdateTOTPCounter(n)
    <2>1. /\ Exists(u) /\ account[u].counter # Nothing /\ account[u].counter < code
          /\ account' = [account EXCEPT ![u].counter = code] /\ recovery' = recovery
          /\ code \in Counter
        BY <1>0, <1>3 DEF UpdateTOTPCounter, HasTOTP, Carries
    <2>2. account[u] \in Account /\ AccountOK(account[u])
        BY <1>0, <1>1, <2>1 DEF TypeOK, Exists, AccountInv, AccountsAreOK
    <2>3. account'[u].counter = code /\ account'[u].enrolled = account[u].enrolled
        BY <1>0, <1>1, <2>1, <2>2 DEF TypeOK, Account
    <2>4. account[u].counter \in Nat /\ account[u].enrolled \in Nat /\ code \in Nat
          /\ account[u].enrolled <= account[u].counter
        BY <2>1, <2>2 DEF AccountOK, Account, Counter
    <2>5. code \notin recovery[u]
        BY <1>0, <1>1, <2>1, CodesDiffer DEF TypeOK
    <2> HIDE DEF u, code
    <2>6. ~CodeSpent(code, u)
        BY <2>1, <2>4 DEF CodeSpent
    <2>7. CodeSpent(code, u)'
        <3>1. /\ account'[u].counter # Nothing /\ code <= account'[u].counter
              /\ account'[u].enrolled < code /\ code \notin recovery'[u]
            BY <2>1, <2>3, <2>4, <2>5, NothingIsNone DEF Counter
        <3> QED
            BY <1>2, <3>1 DEF CodeSpent, u, code
    <2> QED
        BY <1>1, <1>2, <2>1, <2>6, <2>7 DEF u, code
<1>4. CASE UseRecoveryCode(n)
    <2>1. code \in recovery[u] /\ recovery' = [recovery EXCEPT ![u] = @ \ {code}]
        BY <1>4 DEF UseRecoveryCode
    <2>2. code \notin recovery'[u] /\ code \notin Counter
        BY <1>0, <1>1, <2>1, CodesDiffer DEF TypeOK
    <2>3. Exists(u)
        BY <1>1, <2>1 DEF AccountInv, NothingOutlivesItsAccount
    <2>4. ~CodeSpent(code, u)
        BY <2>1 DEF CodeSpent
    <2>5. CodeSpent(code, u)'
        BY <1>2, <2>2 DEF CodeSpent
    <2> QED
        BY <1>1, <1>2, <2>3, <2>4, <2>5
<1> QED
    BY <1>3, <1>4 DEF Spends


LEMMA CodesHold ==
    ASSUME HandlerInv, AccountInv, SecretInv, [Next]_vars
    PROVE  CodesAreSpent' /\ CodesDifferPerUser'
<1>1. ASSUME NEW n \in Name, (CodeOf(n)') # Nothing
      PROVE  /\ (CodeOf(n)') \in Code /\ (TokenOf(n)') # Nothing
             /\ Exists(UserOf(n))' => CodeSpent(CodeOf(n), UserOf(n))'
    <2>1. (TokenOf(n)') = TokenOf(n) /\ (UserOf(n)') = UserOf(n)
        BY <1>1, CodeStep
    <2>2. CASE (CodeOf(n)') = CodeOf(n)
        <3>1. /\ CodeOf(n) \in Code /\ TokenOf(n) # Nothing
              /\ Exists(UserOf(n)) => CodeSpent(CodeOf(n), UserOf(n))
            BY <1>1, <2>2 DEF SecretInv, CodesAreSpent
        <3>2. UserOf(n) \in Name /\ Past(UserOf(n))
            BY <1>1, <2>2, UserIsPast
        <3>3. \A code \in Code, u \in Name :
                Past(u) /\ account'[u] # Nothing /\ (Exists(u) => CodeSpent(code, u)) => CodeSpent(code, u)'
            BY CodeStaysSpent
        <3>4. \A code \in Code, u \in Name :
                code = CodeOf(n) /\ u = UserOf(n) /\ account'[u] # Nothing => CodeSpent(code, u)'
            BY <3>1, <3>2, <3>3
        <3> QED
            BY <2>1, <2>2, <3>1, <3>2, <3>4 DEF Exists, CodeSpent
    <2>3. CASE /\ Spends(n) /\ Opening(n)
               /\ (CodeOf(n)') = local[n].code /\ UserOf(n) = local[n].user /\ TokenOf(n) = local[n].token
        <3>1. /\ local[n].code \in Code /\ local[n].token # Nothing /\ local' = local
              /\ CodeSpent(local[n].code, local[n].user)'
            BY <2>3, SpendsCode
        <3> QED
            BY <2>1, <2>3, <3>1 DEF CodeSpent
    <2> QED
        BY <1>1, <2>1, <2>2, <2>3, CodeStep
<1>2. ASSUME NEW n \in Name, NEW m \in Name, n # m, (CodeOf(n)') # Nothing, (UserOf(n)') = UserOf(m)',
             (CodeOf(n)') = CodeOf(m)'
      PROVE  FALSE
    <2> DEFINE New(k) == /\ Spends(k) /\ Opening(k)
                         /\ (CodeOf(k)') = local[k].code /\ UserOf(k) = local[k].user
    <2>1. \A k \in {n, m} : (UserOf(k)') = UserOf(k) /\ ((CodeOf(k)') = CodeOf(k) \/ New(k))
        BY <1>2, CodeStep
    <2>2. CASE (CodeOf(n)') = CodeOf(n) /\ (CodeOf(m)') = CodeOf(m)
        BY <1>2, <2>1, <2>2 DEF SecretInv, CodesDifferPerUser
    <2>3. ASSUME NEW k \in {n, m}, NEW j \in {n, m}, New(k), (CodeOf(j)') = CodeOf(j)
          PROVE  FALSE
        <3>1. Exists(local[k].user) /\ ~CodeSpent(local[k].code, local[k].user)
            BY <2>3, SpendsCode
        <3>2. local[k].code = CodeOf(j) /\ local[k].user = UserOf(j) /\ CodeOf(j) # Nothing
            BY <1>2, <2>1, <2>3
        <3>3. Exists(UserOf(j)) => CodeSpent(CodeOf(j), UserOf(j))
            BY <3>2 DEF SecretInv, CodesAreSpent
        <3> QED
            BY <3>1, <3>2, <3>3
    <2>4. ASSUME New(n), New(m)
          PROVE  FALSE
        <3>1. n \in Request /\ m \in Request
            BY <2>4 DEF Spends
        <3> QED
            BY <1>2, <2>4, <3>1, SpendsCode
    <2> HIDE DEF New
    <2> QED
        BY <2>1, <2>2, <2>3, <2>4
<1> QED
    BY <1>1, <1>2 DEF CodesAreSpent, CodesDifferPerUser


-----------------------------------------------------------------------------
(* Invitations and the bootstrap token *)

\* The invitation of an account is used, and is not made again.
InvitationsAreUsed ==
    \A u \in Name : account[u] # Nothing /\ account[u].origin \in Name =>
        /\ invitation[account[u].origin] # Nothing => invitation[account[u].origin].used
        /\ account[u].origin \in Request => pc[account[u].origin] = "done"

InvitationInv == InvitationsAreUsed /\ AccountsCountOnce

\* Where an account comes from: it was there, or an unused invitation, or the
\* token while there was no account, or an administrator.
LEMMA OriginStep ==
    ASSUME HandlerInv, AccountInv, [Next]_vars, NEW u \in Name, account'[u] # Nothing
    PROVE  \/ account[u] # Nothing /\ account'[u].origin = account[u].origin
           \/ /\ Inserted(u) /\ account'[u].origin = local[u].origin
              /\ \/ local[u].origin = "setup" /\ \A v \in Name : account[v] = Nothing
                 \/ /\ local[u].origin \in Name /\ StoreInvitation(u)
                    /\ invitation[local[u].origin] # Nothing /\ ~invitation[local[u].origin].used
                 \/ local[u].origin = "user_creation"
<1>1. account'[u] = account[u] \/ Rewritten(account[u], account'[u]) \/ Inserted(u)
    BY AccountRows DEF Deleted
<1>2. ASSUME Inserted(u)
      PROVE  /\ account'[u].origin = local[u].origin
             /\ \/ local[u].origin = "setup" /\ \A v \in Name : account[v] = Nothing
                \/ /\ local[u].origin \in Name /\ StoreInvitation(u)
                   /\ invitation[local[u].origin] # Nothing /\ ~invitation[local[u].origin].used
                \/ local[u].origin = "user_creation"
    BY <1>2 DEF Inserted, NewAccount, CreateFirstAdmin, StoreInvitation, StoreUser, Exists
<1> QED
    BY <1>1, <1>2 DEF Rewritten

LEMMA InvitationsHold ==
    ASSUME HandlerInv, AccountInv, InvitationInv, [Next]_vars
    PROVE  InvitationInv'
<1>1. ASSUME NEW u \in Name, account'[u] # Nothing, account'[u].origin \in Name
      PROVE  /\ invitation'[account'[u].origin] # Nothing => invitation'[account'[u].origin].used
             /\ account'[u].origin \in Request => pc'[account'[u].origin] = "done"
    <2> DEFINE i == account'[u].origin
    <2>1. CASE account[u] # Nothing /\ i = account[u].origin
        <3>1. /\ invitation[i] # Nothing => invitation[i].used
              /\ i \in Request => pc[i] = "done"
            BY <1>1, <2>1 DEF InvitationInv, InvitationsAreUsed
        <3> HIDE DEF i
        <3>2. i \in Request => pc'[i] = "done"
            BY <3>1, DoneStays
        <3>3. i \in Name
            BY <1>1 DEF i
        <3>4. i \in Request => ~StoreNewInvitation(i)
            BY <3>1 DEF StoreNewInvitation
        <3>5. invitation'[i] # Nothing => invitation'[i].used
            BY <3>1, <3>3, <3>4, InvitationRows
        <3> QED
            BY <3>2, <3>5 DEF i
    <2>2. CASE /\ Inserted(u) /\ i = local[u].origin /\ StoreInvitation(u)
               /\ invitation[i] # Nothing
        <3>1. invitation' = [invitation EXCEPT ![i].used = TRUE]
            BY <2>2 DEF StoreInvitation
        <3>2. invitation[i] \in Invitation
            BY <1>1, <2>2 DEF HandlerInv, TypeOK
        <3>3. invitation'[i] = [invitation[i] EXCEPT !.used = TRUE]
            BY <1>1, <3>1 DEF HandlerInv, TypeOK
        <3>4. invitation'[i].used
            BY <3>2, <3>3 DEF Invitation
        <3>5. i \in Request => pc[i] = "done" /\ i # u
            BY <2>2 DEF HandlerInv, MadeWhenDone, Inserted
        <3>6. i \in Request => pc'[i] = "done"
            BY <2>2, <3>5 DEF Inserted
        <3> QED
            BY <3>4, <3>6
    <2> QED
        BY <1>1, <2>1, <2>2, OriginStep, NamesDiffer
<1>2. ASSUME NEW u \in Name, NEW v \in Name, u # v, account'[u] # Nothing, account'[v] # Nothing,
             account'[u].origin \in Name \cup {"setup"}, account'[u].origin = account'[v].origin
      PROVE  FALSE
    <2> DEFINE Old(k) == account[k] # Nothing /\ account'[k].origin = account[k].origin
    <2>1. \A k \in {u, v} : Old(k) \/ Inserted(k)
        BY <1>2, OriginStep
    <2>2. CASE Old(u) /\ Old(v)
        BY <1>2, <2>2 DEF InvitationInv, AccountsCountOnce, Exists
    <2>3. ASSUME NEW k \in {u, v}, NEW j \in {u, v}, Inserted(k), ~Old(k), Old(j)
          PROVE  FALSE
        <3>1. account[j].origin = account'[k].origin /\ account[j] # Nothing
            BY <1>2, <2>3
        <3>2. CASE \A n \in Name : account[n] = Nothing
            BY <1>2, <3>1, <3>2
        <3>3. CASE /\ account'[k].origin \in Name
                   /\ invitation[account'[k].origin] # Nothing /\ ~invitation[account'[k].origin].used
            BY <1>2, <3>1, <3>3 DEF InvitationInv, InvitationsAreUsed
        <3>4. account'[k].origin # "user_creation"
            BY <1>2, NamesDiffer
        <3> QED
            BY <1>2, <2>3, <3>2, <3>3, <3>4, OriginStep
    <2>4. ASSUME Inserted(u), Inserted(v)
          PROVE  FALSE
        BY <1>2, <2>4 DEF Inserted
    <2> HIDE DEF Old
    <2> QED
        BY <2>1, <2>2, <2>3, <2>4
<1> QED
    BY <1>1, <1>2 DEF InvitationInv, InvitationsAreUsed, AccountsCountOnce, Exists


-----------------------------------------------------------------------------
(* The administrators *)

\* A request that is about to delete or demote its target.
Removes(r) == pc[r] = "delete" \/ (pc[r] = "role" /\ local[r].role # "admin")

OneDecides == \A r, q \in Request : Deciding(r) /\ Deciding(q) => r = q

\* It has seen another administrator, if its target is one.
RemovalsAreCounted ==
    \A r \in Request : Removes(r) /\ IsAdmin(local[r].user) => \E u \in Admins : u # local[r].user

\* Without an administrator there is no account, and nobody creates one.
NobodyWithoutAdmin ==
    Admins = {} =>
        /\ \A u \in Name : ~Exists(u)
        /\ \A r \in Request : pc[r] \in {"enrollment", "consume", "insert"} =>
              local[r].origin # "user_creation"

AdminInv == ~overlapped => OneDecides /\ RemovalsAreCounted /\ NobodyWithoutAdmin

\* Only SetUserRole and StoreDeleteUser take an administrator away, or make one
\* of an account that is there.
LEMMA AdminsStep ==
    ASSUME HandlerInv, AccountInv, [Next]_vars, NEW u \in Name, ~Inserted(u)
    PROVE  \/ (IsAdmin(u)') = IsAdmin(u)
           \/ \E q \in Request : Deciding(q) /\ ~Deciding(q)' /\ local[q].user = u /\ Step(q)
                /\ (SetUserRole(q) \/ StoreDeleteUser(q))
<1>1. account \in [Name -> Account \cup {Nothing}] /\ TypeOK
    BY DEF HandlerInv, TypeOK
<1>2. ASSUME account'[u] = account[u]
      PROVE  (IsAdmin(u)') = IsAdmin(u)
    BY <1>2 DEF IsAdmin, Exists
<1>3. ASSUME NEW r \in Request, UpdateTOTPCounter(r)
      PROVE  (IsAdmin(u)') = IsAdmin(u)
    BY <1>2, <1>3, CounterRewrites DEF IsAdmin, Exists, Rewritten
<1>4. ASSUME NEW r \in Request, SetUserRole(r) \/ StoreDeleteUser(r), u # local[r].user
      PROVE  account'[u] = account[u]
    BY <1>1, <1>4 DEF SetUserRole, StoreDeleteUser
<1>5. ASSUME NEW r \in Request, SetUserRole(r) \/ StoreDeleteUser(r)
      PROVE  Deciding(r) /\ ~Deciding(r)' /\ Step(r)
    BY <1>1, <1>5 DEF SetUserRole, StoreDeleteUser, Deciding, Step, Finish, Goto, TypeOK
<1>6. ASSUME NEW r \in Request, CreateFirstAdmin(r) \/ StoreInvitation(r) \/ StoreUser(r)
      PROVE  account'[u] = account[u]
    BY <1>6, InsertInserts
<1>7. ASSUME NEW r \in Request, TableStep(r)
      PROVE  \/ account' = account \/ UpdateTOTPCounter(r) \/ SetUserRole(r) \/ StoreDeleteUser(r)
             \/ CreateFirstAdmin(r) \/ StoreInvitation(r) \/ StoreUser(r)
    BY <1>7 DEF TableStep, CreateAuthChallenge, CompleteLoginMFA, UseRecoveryCode, CreateSession,
        Logout, UpdatePassword, RevokeUserSessions, ConsumeEnrollment, StoreNewInvitation
<1>8. ASSUME NEW r \in Request, TableStep(r)
      PROVE  \/ (IsAdmin(u)') = IsAdmin(u)
             \/ SetUserRole(r) /\ local[r].user = u
             \/ StoreDeleteUser(r) /\ local[r].user = u
    BY <1>2, <1>3, <1>4, <1>6, <1>7, <1>8
<1>9. CASE UNCHANGED <<account, recovery, session, challenge, invitation>>
    BY <1>2, <1>9
<1> QED
    BY <1>5, <1>8, <1>9, StillOrTableStep

\* A handler that decides did so before, or it has read its target now.
LEMMA DecidingStep ==
    ASSUME HandlerInv, [Next]_vars, NEW q \in Request, Deciding(q)'
    PROVE  /\ local'[q] = local[q]
           /\ \/ Deciding(q) /\ (pc'[q] = pc[q] \/ CountAdmins(q) \/ RequireTOTP(q))
              \/ FindTarget(q) /\ ~Deciding(q)
<1>0. TypeOK /\ Carries(q, pc[q], local[q])
    BY DEF HandlerInv, HandlersCarry
<1>1. pc'[q] \in {"count", "totp", "delete", "role"}
    BY DEF Deciding
<1>2. CASE pc'[q] = pc[q] /\ local'[q] = local[q]
    BY <1>2 DEF Deciding
<1>3. CASE Enter(q)
    <2>1. \/ \E p, kind, user, role, token, code, origin :
                /\ p \notin {"count", "totp", "delete", "role"}
                /\ Begin(q, p, kind, user, role, token, code, origin)
          \/ \E t \in Name, code \in Code : CompleteLoginMFA(q, t, code)
          \/ \E s \in Name : Logout(q, s)
        BY <1>3 DEF Enter, BeginTOTP, Login, CompleteSetup, AcceptInvitation, ChangePassword,
            CreateInvitation, CreateUser, DeleteUser, ChangeUserRole, Apply
    <2>2. pc'[q] \notin {"count", "totp", "delete", "role"}
        BY <1>0, <2>1 DEF Begin, CompleteLoginMFA, Logout, Finish, Goto, TypeOK
    <2> QED
        BY <1>1, <2>2
<1>4. CASE Step(q)
    <2>1. CASE FindTarget(q) \/ CountAdmins(q) \/ RequireTOTP(q)
        BY <2>1 DEF FindTarget, CountAdmins, RequireTOTP, Deciding
    <2>2. CASE \/ FindTOTP(q) \/ LoadCredential(q) \/ UpdateTOTPCounter(q) \/ UseRecoveryCode(q)
               \/ LoadEnrollment(q) \/ ConsumeEnrollment(q) \/ SetUserRole(q)
               \/ CreateFirstAdmin(q) \/ StoreInvitation(q)
        <3>1. pc'[q] \in {"challenge", "session", "counter", "recovery", "consume", "insert", "revoke"}
            BY <1>0, <2>2 DEF FindTOTP, LoadCredential, UpdateTOTPCounter, UseRecoveryCode, LoadEnrollment,
                ConsumeEnrollment, SetUserRole, CreateFirstAdmin, StoreInvitation, Welcome, Goto, TypeOK
        <3> QED
            BY <1>1, <3>1
    <2>3. CASE \/ CreateAuthChallenge(q) \/ CreateSession(q) \/ UpdatePassword(q) \/ StoreUser(q)
               \/ StoreNewInvitation(q) \/ RevokeUserSessions(q) \/ StoreDeleteUser(q)
        <3>1. Finish(q)
            BY <2>3 DEF CreateAuthChallenge, CreateSession, UpdatePassword, StoreUser, StoreNewInvitation,
                RevokeUserSessions, StoreDeleteUser
        <3>2. pc'[q] = "done"
            BY <1>0, <3>1 DEF Finish, Goto, TypeOK
        <3> QED
            BY <1>1, <3>2
    <2> QED
        BY <1>4, <2>1, <2>2, <2>3 DEF Step
<1> QED
    BY <1>0, <1>1, <1>2, <1>3, <1>4, WhoMoved

\* The overlap of two such requests is not forgotten, and a target that is read
\* while nobody else decides begins none.
LEMMA OverlapStep ==
    ASSUME TypeOK, [Next]_vars, ~overlapped'
    PROVE  /\ ~overlapped
           /\ \A r, q \in Request : FindTarget(q) => ~Deciding(r)
<1>1. ASSUME NEW r \in Request, Enter(r)
      PROVE  ~overlapped
    BY <1>1 DEF Enter, BeginTOTP, Login, CompleteLoginMFA, CompleteSetup, AcceptInvitation, Logout,
        ChangePassword, CreateInvitation, CreateUser, DeleteUser, ChangeUserRole, Apply, Begin
<1>2. ASSUME NEW r \in Request, Step(r)
      PROVE  ~overlapped
    BY <1>2 DEF Step, CreateAuthChallenge, FindTOTP, LoadCredential, UpdateTOTPCounter, UseRecoveryCode,
        CreateSession, UpdatePassword, LoadEnrollment, ConsumeEnrollment, CreateFirstAdmin,
        StoreInvitation, StoreUser, StoreNewInvitation, FindTarget, CountAdmins, RequireTOTP,
        SetUserRole, RevokeUserSessions, StoreDeleteUser
<1>3. ASSUME NEW r \in Request, Abort(r)
      PROVE  ~overlapped
    BY <1>3 DEF Abort, Deny
<1>4. ASSUME Restart \/ Tick \/ UNCHANGED vars
      PROVE  ~overlapped
    <2>1. overlapped' = overlapped
        BY <1>4 DEF Restart, Tick, vars
    <2> QED
        BY <2>1, Zenon
<1>5. ~overlapped
    BY <1>1, <1>2, <1>3, <1>4 DEF Next
<1>6. ASSUME NEW r \in Request, NEW q \in Request, FindTarget(q), Deciding(r)
      PROVE  FALSE
    <2>1. overlapped'
        BY <1>6, Zenon DEF FindTarget
    <2> QED
        BY <2>1
<1> QED
    BY <1>5, <1>6

\* A set with two members has another one than u.
LEMMA AnotherOfTwo ==
    ASSUME NEW S, Cardinality(S) > 1, NEW u
    PROVE  \E v \in S : v # u
<1> SUFFICES ASSUME \A v \in S : v = u
             PROVE  FALSE
    OBVIOUS
<1>1. S = {} \/ S = {u}
    OBVIOUS
<1> QED
    BY <1>1, FS_EmptySet, FS_Singleton


LEMMA OneDecidesStep ==
    ASSUME HandlerInv, OneDecides, [Next]_vars, ~overlapped'
    PROVE  OneDecides'
<1> SUFFICES ASSUME NEW r \in Request, NEW q \in Request, Deciding(r)', Deciding(q)', r # q
             PROVE  FALSE
    BY DEF OneDecides
<1>1. ASSUME NEW k \in {r, q}, NEW j \in {r, q}, k # j, FindTarget(k)
      PROVE  FALSE
    <2>1. ~Deciding(j) /\ ~Deciding(k)
        BY <1>1, OverlapStep DEF HandlerInv
    <2>2. FindTarget(j)
        BY <1>1, <2>1, DecidingStep
    <2>3. pc'[j] = pc[j]
        BY <1>1, OneHandlerMoves DEF HandlerInv, Step
    <2> QED
        BY <1>1, <2>1, <2>3 DEF Deciding
<1> QED
    BY <1>1, DecidingStep DEF OneDecides

LEMMA RemovalsStep ==
    ASSUME HandlerInv, AccountInv, OneDecides, RemovalsAreCounted, [Next]_vars, ~overlapped'
    PROVE  RemovalsAreCounted'
<1> SUFFICES ASSUME NEW r \in Request, Removes(r)', IsAdmin(local[r].user)'
             PROVE  \E v \in Admins' : v # local'[r].user
    BY DEF RemovalsAreCounted
<1> DEFINE u == local[r].user
<1>0. TypeOK /\ Carries(r, pc[r], local[r])
    BY DEF HandlerInv, HandlersCarry
<1>1. /\ pc'[r] \in {"delete", "role"} /\ (pc'[r] = "role" => local'[r].role # "admin")
      /\ Deciding(r)'
    BY DEF Removes, Deciding
<1>2. local'[r] = local[r]
    BY <1>1, DecidingStep
<1>3. u \in Name /\ account'[u] # Nothing
    BY <1>2 DEF IsAdmin, Exists
<1>4. CASE pc'[r] = pc[r] /\ Deciding(r)
    <2>1. Past(u)
        BY <1>0, <1>1, <1>3, <1>4, NothingIsNone DEF HasFound, AccountInv, NamesAreNotReused
    <2>2. \A q \in Request : ~(Deciding(q) /\ ~Deciding(q)')
        BY <1>1, <1>4 DEF OneDecides
    <2>3. ASSUME NEW v \in Name, Past(v)
          PROVE  (IsAdmin(v)') = IsAdmin(v)
        BY <2>2, <2>3, AdminsStep, PastIsNotInserted
    <2>4. IsAdmin(u) /\ Removes(r)
        <3>1. account'[u].role = "admin"
            BY <1>2 DEF IsAdmin
        <3>2. \A v \in Name : v = u => (IsAdmin(v)') = IsAdmin(v)
            BY <2>1, <2>3
        <3>3. \A v \in Name : v = u => IsAdmin(v)'
            BY <1>3, <3>1 DEF IsAdmin, Exists
        <3>4. IsAdmin(u)
            BY <1>3, <3>2, <3>3
        <3> QED
            BY <1>1, <1>2, <1>4, <3>4 DEF Removes
    <2>5. PICK v \in Admins : v # u
        BY <2>4 DEF RemovalsAreCounted
    <2>6. v \in Name /\ Past(v) /\ IsAdmin(v)
        BY <2>5 DEF Admins, IsAdmin, AccountInv, NamesAreNotReused
    <2>7. v \in Admins'
        BY <2>3, <2>6 DEF Admins
    <2> QED
        BY <1>2, <2>5, <2>7
<1>5. CASE CountAdmins(r)
    <2>1. account' = account
        BY <1>5 DEF CountAdmins, tables
    <2>2. \E v \in Admins : v # u
        BY <1>5, AnotherOfTwo DEF CountAdmins
    <2> QED
        BY <1>2, <2>1, <2>2 DEF Admins, IsAdmin, Exists
<1>6. CASE RequireTOTP(r)
    <2>1. pc[r] = "totp" /\ pc'[r] = "role"
        BY <1>0, <1>6 DEF RequireTOTP, Goto, TypeOK
    <2>2. local[r].role = "admin"
        BY <1>0, <2>1 DEF Carries
    <2> QED
        BY <1>1, <1>2, <2>1, <2>2
<1>7. CASE FindTarget(r)
    <2>1. account' = account /\ pc[r] = "target"
        BY <1>7 DEF FindTarget, tables
    <2>2. pc'[r] = IF IsAdmin(u) /\ local[r].role # "admin" THEN "count" ELSE Proceed(r)
        BY <1>0, <1>7 DEF FindTarget, Goto, TypeOK
    <2>3. IsAdmin(u)
        BY <1>2, <2>1 DEF IsAdmin, Exists
    <2>4. local[r].role = "admin" /\ pc'[r] = Proceed(r)
        BY <1>1, <2>2, <2>3
    <2>5. local[r].kind = "role"
        BY <1>0, <2>1, <2>4, NothingIsNone DEF Carries
    <2> QED
        BY <1>1, <2>4, <2>5 DEF Proceed
<1> QED
    BY <1>1, <1>4, <1>5, <1>6, <1>7, DecidingStep

LEMMA NobodyStep ==
    ASSUME HandlerInv, AccountInv, AdminInv, [Next]_vars, ~overlapped'
    PROVE  NobodyWithoutAdmin'
<1> SUFFICES ASSUME Admins' = {}
             PROVE  /\ \A u \in Name : ~Exists(u)'
                    /\ \A r \in Request : pc'[r] \in {"enrollment", "consume", "insert"} =>
                            local'[r].origin # "user_creation"
    BY DEF NobodyWithoutAdmin
<1>0. /\ TypeOK /\ ~overlapped /\ OneDecides /\ RemovalsAreCounted /\ NobodyWithoutAdmin
      /\ \A r \in Request : Carries(r, pc[r], local[r])
    BY OverlapStep DEF HandlerInv, HandlersCarry, AdminInv
<1>1. Admins = {}
    <2> SUFFICES ASSUME NEW u \in Name, IsAdmin(u)
                 PROVE  FALSE
        BY DEF Admins
    <2>1. ~(IsAdmin(u)') /\ Past(u)
        BY DEF Admins, IsAdmin, AccountInv, NamesAreNotReused
    <2>2. PICK q \in Request : /\ Step(q) /\ (SetUserRole(q) \/ StoreDeleteUser(q))
                               /\ local[q].user = u
        BY <2>1, AdminsStep, PastIsNotInserted
    <2>3. CASE SetUserRole(q) /\ local[q].role = "admin"
        <3>1. account' = [account EXCEPT ![u].role = "admin"] /\ account[u] \in Account
            BY <1>0, <2>2, <2>3 DEF SetUserRole, IsAdmin, Exists, TypeOK
        <3>2. account'[u] = [account[u] EXCEPT !.role = "admin"] /\ account'[u] \in Account
            BY <1>0, <3>1 DEF TypeOK, Account
        <3> QED
            BY <2>1, <3>1, <3>2, NothingIsNone DEF IsAdmin, Exists, Account
    <2>4. CASE Removes(q)
        <3>1. PICK v \in Admins : v # u
            BY <1>0, <2>2, <2>4 DEF RemovalsAreCounted
        <3>2. v \in Name /\ IsAdmin(v) /\ account'[v] = account[v]
            BY <1>0, <2>2, <3>1 DEF Admins, SetUserRole, StoreDeleteUser, TypeOK
        <3> QED
            BY <3>2 DEF Admins, IsAdmin, Exists
    <2> QED
        BY <2>2, <2>3, <2>4 DEF Removes, SetUserRole, StoreDeleteUser
<1>2. /\ \A u \in Name : account[u] = Nothing
      /\ \A r \in Request : pc[r] \in {"enrollment", "consume", "insert"} =>
              local[r].origin # "user_creation"
    BY <1>0, <1>1 DEF NobodyWithoutAdmin, Exists
<1>3. ASSUME NEW u \in Name, account'[u] # Nothing
      PROVE  FALSE
    <2>1. Inserted(u) /\ u \in Request /\ pc[u] = "insert"
        BY <1>2, <1>3, OriginStep DEF Inserted
    <2>2. CASE CreateFirstAdmin(u)
        <3>1. local[u].role = "admin"
            BY <1>0, <2>1, <2>2 DEF CreateFirstAdmin, Carries, Enrolls
        <3>2. account'[u].role = "admin"
            BY <2>1, <3>1 DEF Inserted, NewAccount
        <3> QED
            BY <1>3, <3>2 DEF Admins, IsAdmin, Exists
    <2>3. CASE StoreInvitation(u)
        BY <1>2, <2>3 DEF StoreInvitation, AccountInv, NothingOutlivesItsAccount, Exists
    <2>4. CASE StoreUser(u)
        BY <1>2, <2>1, <2>4 DEF StoreUser
    <2> QED
        BY <2>1, <2>2, <2>3, <2>4 DEF Inserted
<1>4. ASSUME NEW r \in Request, pc'[r] \in {"enrollment", "consume", "insert"},
             local'[r].origin = "user_creation"
      PROVE  FALSE
    <2>1. CASE pc'[r] = pc[r] /\ local'[r] = local[r]
        BY <1>2, <1>4, <2>1
    <2>2. CASE Enter(r)
        <3>1. ASSUME NEW p, NEW kind, NEW user, NEW role, NEW token, NEW code, NEW origin,
                     Begin(r, p, kind, user, role, token, code, origin)
              PROVE  pc'[r] = p /\ local'[r].origin = origin
            BY <1>0, <3>1 DEF Begin, Goto, TypeOK
        <3>2. ASSUME NEW role, NEW t, NEW code, NEW origin, Apply(r, role, t, code, origin)
              PROVE  local'[r].origin = origin
            BY <3>1, <3>2 DEF Apply
        <3>3. ASSUME NEW s \in Name, Administrator(s)
              PROVE  FALSE
            BY <1>2, <3>3 DEF Administrator, IsAdmin, Exists
        <3>4. ASSUME NEW i \in Name, NEW t \in Name, NEW code \in Counter,
                     CompleteSetup(r, t, code) \/ AcceptInvitation(r, i, t, code)
              PROVE  FALSE
            BY <1>4, <3>2, <3>4, NamesDiffer DEF CompleteSetup, AcceptInvitation
        <3>5. ASSUME \/ \E purpose \in Purpose : BeginTOTP(r, purpose)
                     \/ \E u \in Name : Login(r, u)
                     \/ \E s \in Name : ChangePassword(r, s)
                     \/ \E t \in Name, code \in Code : CompleteLoginMFA(r, t, code)
                     \/ \E s \in Name : Logout(r, s)
              PROVE  pc'[r] \in {"challenge", "find_totp", "password", "credential", "done"}
            BY <1>0, <3>1, <3>5 DEF BeginTOTP, Login, ChangePassword, CompleteLoginMFA, Logout, Finish,
                Goto, TypeOK
        <3> QED
            BY <1>4, <2>2, <3>3, <3>4, <3>5 DEF Enter, CreateInvitation, CreateUser, DeleteUser,
                ChangeUserRole
    <2>3. CASE Step(r)
        <3>1. CASE LoadEnrollment(r) \/ ConsumeEnrollment(r)
            BY <1>0, <1>2, <1>4, <3>1 DEF LoadEnrollment, ConsumeEnrollment
        <3>2. CASE \/ FindTOTP(r) \/ LoadCredential(r) \/ UpdateTOTPCounter(r) \/ UseRecoveryCode(r)
                   \/ FindTarget(r) \/ CountAdmins(r) \/ RequireTOTP(r) \/ SetUserRole(r)
                   \/ CreateFirstAdmin(r) \/ StoreInvitation(r)
            <4>1. pc'[r] \notin {"enrollment", "consume", "insert"}
                BY <1>0, <3>2 DEF FindTOTP, LoadCredential, UpdateTOTPCounter, UseRecoveryCode, FindTarget,
                    CountAdmins, Proceed, RequireTOTP, SetUserRole, CreateFirstAdmin, StoreInvitation,
                    Welcome, Goto, TypeOK
            <4> QED
                BY <1>4, <4>1
        <3>3. CASE \/ CreateAuthChallenge(r) \/ CreateSession(r) \/ UpdatePassword(r) \/ StoreUser(r)
                   \/ StoreNewInvitation(r) \/ RevokeUserSessions(r) \/ StoreDeleteUser(r)
            <4>1. Finish(r)
                BY <3>3 DEF CreateAuthChallenge, CreateSession, UpdatePassword, StoreUser,
                    StoreNewInvitation, RevokeUserSessions, StoreDeleteUser
            <4>2. pc'[r] = "done"
                BY <1>0, <4>1 DEF Finish, Goto, TypeOK
            <4> QED
                BY <1>4, <4>2
        <3> QED
            BY <2>3, <3>1, <3>2, <3>3 DEF Step
    <2> QED
        BY <1>0, <1>4, <2>1, <2>2, <2>3, WhoMoved
<1> QED
    BY <1>3, <1>4 DEF Exists


LEMMA AdminsHold ==
    ASSUME HandlerInv, AccountInv, AdminInv, [Next]_vars
    PROVE  AdminInv'
<1> SUFFICES ASSUME ~overlapped'
             PROVE  OneDecides' /\ RemovalsAreCounted' /\ NobodyWithoutAdmin'
    BY DEF AdminInv
<1>1. OneDecides /\ RemovalsAreCounted
    BY OverlapStep DEF AdminInv, HandlerInv
<1> QED
    BY <1>1, OneDecidesStep, RemovalsStep, NobodyStep

-----------------------------------------------------------------------------
(* The theorems *)

IInv == HandlerInv /\ AccountInv /\ SecretInv /\ InvitationInv /\ AdminInv

LEMMA InitIsTyped ==
    ASSUME Init
    PROVE  HandlerInv
<1>1. \A n \in Name : n \in Founder \/ n \in Request
    BY DEF Name
<1>2. 0 \in Counter /\ 0 \in 0..MaxTime
    BY DEF Counter
<1>3. /\ pc \in [Request -> Statement] /\ local \in [Request -> Local \cup {Nothing}]
      /\ now \in 0..MaxTime /\ overlapped \in BOOLEAN /\ HandlersCarry
    BY <1>2 DEF Init, Statement, HandlersCarry, Carries
<1>4. CASE Empty
    <2>1. challenge \in [Name -> Challenge \cup {Nothing}]
        BY <1>4 DEF Empty, Enrollments, Challenge, Purpose
    <2>2. TypeOK
        BY <1>3, <1>4, <2>1 DEF Empty, TypeOK, Statement
    <2>3. \A r \in Request : session[r] = Nothing /\ challenge[r] = Nothing /\ invitation[r] = Nothing
        BY <1>4, NamesDiffer DEF Empty, Enrollments, Name
    <2> QED
        BY <1>3, <2>2, <2>3 DEF HandlerInv, MadeWhenDone
<1>5. CASE Running
    <2>1. FoundingAccount \subseteq Account
        BY <1>2 DEF FoundingAccount, Founding, Account
    <2>2. PICK founders \in [Founder -> FoundingAccount] :
            account = [n \in Name |-> IF n \in Founder THEN founders[n] ELSE Nothing]
        BY <1>5 DEF Running
    <2>3. account \in [Name -> Account \cup {Nothing}]
        BY <2>1, <2>2
    <2>4. recovery \in [Name -> SUBSET RecoveryCode]
        BY <1>5 DEF Running
    <2>5. session \in [Name -> Session \cup {Nothing}]
        BY <1>5 DEF Running, Session, HasTOTP, Exists
    <2>6. challenge \in [Name -> Challenge \cup {Nothing}]
        BY <1>5 DEF Running, Enrollments, Challenge, Purpose
    <2>7. invitation \in [Name -> Invitation \cup {Nothing}]
        BY <1>5 DEF Running, Invitation
    <2>8. TypeOK
        BY <1>3, <1>5, <2>3, <2>4, <2>5, <2>6, <2>7 DEF Running, TypeOK, Statement
    <2>9. \A r \in Request : ~Exists(r)
        BY <2>2, NamesDiffer DEF Exists, Name
    <2>10. \A r \in Request : session[r] = Nothing /\ challenge[r] = Nothing /\ invitation[r] = Nothing
        BY <1>5, <2>9, NamesDiffer DEF Running, Enrollments, Name, IsAdmin
    <2> QED
        BY <1>3, <2>8, <2>10 DEF HandlerInv, MadeWhenDone
<1> QED
    BY <1>4, <1>5 DEF Init

LEMMA InitIsInvariant ==
    ASSUME Init
    PROVE  IInv
<1>1. HandlerInv
    BY InitIsTyped
<1>2. /\ \A r \in Request : pc[r] = "new"
      /\ \A n \in Name : n \in Founder \/ n \in Request
    BY DEF Init, Name
<1>3. CASE Empty
    <2>1. \A n \in Name : account[n] = Nothing /\ recovery[n] = {} /\ session[n] = Nothing
                          /\ invitation[n] = Nothing
        BY <1>3 DEF Empty
    <2>2. \A n \in Name : challenge[n] # Nothing => challenge[n].purpose # "login_mfa"
        BY <1>3 DEF Empty, Enrollments
    <2>3. AccountInv
        BY <1>2, <2>1, <2>2 DEF AccountInv, NamesAreNotReused, HasFound, FindingsHold, AccountsAreOK,
            NothingOutlivesItsAccount, WeakSessions, Exists
    <2>4. SecretInv
        BY <1>2, <2>1 DEF SecretInv, TokensAreSpent, TokensDiffer, CodesAreSpent, CodesDifferPerUser,
            TokenOf, CodeOf, Opening
    <2>5. InvitationInv
        BY <2>1 DEF InvitationInv, InvitationsAreUsed, AccountsCountOnce, Exists
    <2>6. AdminInv
        BY <1>2, <2>1 DEF AdminInv, OneDecides, Deciding, RemovalsAreCounted, Removes,
            NobodyWithoutAdmin, Exists
    <2> QED
        BY <1>1, <2>3, <2>4, <2>5, <2>6 DEF IInv
<1>4. CASE Running
    <2>1. PICK founders \in [Founder -> FoundingAccount] :
            account = [n \in Name |-> IF n \in Founder THEN founders[n] ELSE Nothing]
        BY <1>4 DEF Running
    <2>2. ASSUME NEW a \in FoundingAccount
          PROVE  AccountOK(a) /\ a.origin = Nothing /\ a # Nothing
        <3>1. a \in Account
            BY DEF FoundingAccount, Founding, Account, Counter
        <3> QED
            BY <3>1, NothingIsNone DEF FoundingAccount, Founding, AccountOK, Counter
    <2>3. \A n \in Name : account[n] # Nothing =>
            n \in Founder /\ AccountOK(account[n]) /\ account[n].origin = Nothing
        BY <2>1, <2>2
    <2>4. \A n \in Name : session[n] # Nothing =>
            /\ Exists(n) /\ session[n].user = n /\ session[n].mfa = HasTOTP(n)
            /\ session[n].token = Nothing /\ session[n].code = Nothing
        BY <1>4 DEF Running
    <2>5. \A n \in Name : challenge[n] # Nothing /\ challenge[n].purpose = "login_mfa" =>
            Exists(challenge[n].user)
        <3>1. CASE \E users \in [Founder -> {u \in Name : HasTOTP(u)}] : challenge = [n \in Name |->
                IF n \in Founder THEN [purpose |-> "login_mfa", user |-> users[n]] ELSE Nothing]
            BY <3>1 DEF HasTOTP
        <3>2. CASE \E purpose \in {"user_creation", "invitation"} : challenge = Enrollments(purpose)
            BY <3>2 DEF Enrollments
        <3> QED
            BY <1>4, <3>1, <3>2 DEF Running
    <2>6. \A n \in Name : (invitation[n] # Nothing => Exists(n) /\ invitation[n].by = n)
                          /\ (recovery[n] # {} => Exists(n))
        BY <1>4 DEF Running, IsAdmin, HasTOTP
    <2>7. NamesAreNotReused
        BY <1>2, <2>3 DEF NamesAreNotReused, Exists, Past, HasFound
    <2>8. FindingsHold /\ AccountsAreOK
        BY <1>2, <2>3 DEF FindingsHold, AccountsAreOK
    <2>9. NothingOutlivesItsAccount
        BY <2>4, <2>5, <2>6 DEF NothingOutlivesItsAccount
    <2>10. WeakSessions
        BY <2>4 DEF WeakSessions, HasTOTP
    <2>11. SecretInv
        BY <1>2, <2>4 DEF SecretInv, TokensAreSpent, TokensDiffer, CodesAreSpent, CodesDifferPerUser,
            TokenOf, CodeOf, Opening
    <2>12. InvitationInv
        BY <2>3, NothingIsNoValue DEF InvitationInv, InvitationsAreUsed, AccountsCountOnce, Exists
    <2>13. AdminInv
        BY <1>2, <1>4 DEF Running, AdminInv, OneDecides, Deciding, RemovalsAreCounted, Removes,
            NobodyWithoutAdmin
    <2> QED
        BY <1>1, <2>7, <2>8, <2>9, <2>10, <2>11, <2>12, <2>13 DEF IInv, AccountInv
<1> QED
    BY <1>3, <1>4 DEF Init

LEMMA StepKeepsInvariant ==
    ASSUME IInv, [Next]_vars
    PROVE  IInv'
<1>1. HandlerInv' /\ AccountInv'
    BY HandlersHold, AccountsHold DEF IInv, AccountInv
<1>2. SecretInv'
    BY TokensHold, CodesHold DEF IInv, SecretInv
<1>3. InvitationInv' /\ AdminInv'
    BY InvitationsHold, AdminsHold DEF IInv
<1> QED
    BY <1>1, <1>2, <1>3 DEF IInv

\* The handlers, the accounts, the secrets, the invitations and the administrators
\* keep their invariants, whatever requests run side by side (auth/service.go).
THEOREM Invariance == Spec => []IInv
<1>1. Init => IInv
    BY InitIsInvariant
<1>2. IInv /\ [Next]_vars => IInv'
    BY StepKeepsInvariant
<1> QED
    BY <1>1, <1>2, PTL DEF Spec

\* The tables hold what their columns admit, and the handlers what they carry.
THEOREM TypeCorrect == Spec => []TypeOK
<1>1. IInv => TypeOK
    BY DEF IInv, HandlerInv
<1> QED
    BY <1>1, Invariance, PTL

\* However many logins, invitations and setups run side by side, no secret makes
\* two sessions or two accounts (UpdateTOTPCounter, UseRecoveryCode,
\* ConsumeAuthChallenge, AcceptInvitation, CreateFirstAdmin).
THEOREM SecretsAreUsedOnce == Spec => []SecretsCountOnce
<1>1. ASSUME IInv
      PROVE  SecretsCountOnce
    <2>1. ASSUME NEW s \in Name, session[s] # Nothing, session[s].code # Nothing
          PROVE  /\ TokenOf(s) = session[s].token /\ TokenOf(s) # Nothing
                 /\ CodeOf(s) = session[s].code /\ CodeOf(s) # Nothing /\ UserOf(s) = session[s].user
                 /\ session[s].code # account[session[s].user].enrolled
        <3>1. /\ TokenOf(s) = session[s].token /\ CodeOf(s) = session[s].code
              /\ UserOf(s) = session[s].user
            BY <2>1 DEF TokenOf, CodeOf, UserOf
        <3>2. TokenOf(s) # Nothing /\ session[s].code \in Code
              /\ (Exists(session[s].user) => CodeSpent(session[s].code, session[s].user))
            BY <1>1, <2>1, <3>1 DEF IInv, SecretInv, CodesAreSpent
        <3>3. Exists(session[s].user)
            BY <1>1, <2>1 DEF IInv, AccountInv, NothingOutlivesItsAccount
        <3>4. account[session[s].user] \in Account
            BY <1>1, <3>3 DEF IInv, HandlerInv, TypeOK, Exists
        <3>5. session[s].code # account[session[s].user].enrolled
            <4>1. CASE session[s].code \in Counter
                <5>1. account[session[s].user].enrolled < session[s].code
                    BY <3>2, <3>3, <4>1 DEF CodeSpent
                <5> QED
                    BY <3>4, <4>1, <5>1 DEF Account, Counter
            <4>2. CASE session[s].code \notin Counter
                BY <2>1, <3>4, <4>2 DEF Account
            <4> QED
                BY <4>1, <4>2
        <3> QED
            BY <2>1, <3>1, <3>2, <3>5
    <2>2. LoginsCountOnce
        BY <1>1, <2>1 DEF LoginsCountOnce, OpenedBy, IInv, SecretInv, TokensDiffer, CodesDifferPerUser
    <2> QED
        BY <1>1, <2>2 DEF SecretsCountOnce, IInv, InvitationInv
<1> QED
    BY <1>1, Invariance, PTL

\* Nothing is left of a deleted account, whatever handlers that had read it store
\* afterwards (DeleteUser and the foreign keys).
THEOREM NothingIsLeft == Spec => []NothingOutlivesItsAccount
<1>1. IInv => NothingOutlivesItsAccount
    BY DEF IInv, AccountInv
<1> QED
    BY <1>1, Invariance, PTL

\* Administrators have shown a second factor, and the last of them stays unless
\* two removals overlapped (Login, ChangeUserRole, DeleteUser).
THEOREM AdministratorsStay == Spec => []AdministratorsHold
<1>1. ASSUME IInv
      PROVE  AdministratorsHold
    <2>1. \A u \in Admins : u \in Name /\ Exists(u) /\ account[u].counter # Nothing
        BY <1>1 DEF IInv, AccountInv, AccountsAreOK, AccountOK, Admins, IsAdmin, Exists
    <2>2. AdministratorsAreVerified
        BY <1>1, <2>1 DEF AdministratorsAreVerified, HasTOTP, Administrator, Authenticated, Admins, IsAdmin,
            Exists, IInv, AccountInv, WeakSessions
    <2>3. AdministratorRemains
        BY <1>1 DEF AdministratorRemains, IInv, AdminInv, NobodyWithoutAdmin
    <2> QED
        BY <2>2, <2>3 DEF AdministratorsHold
<1> QED
    BY <1>1, Invariance, PTL


=============================================================================
