----------------------------- MODULE Enrollment -----------------------------
(***************************************************************************)
(* Accounts made from the browser after the setup: the settings with which *)
(* an administrator invites, creates, promotes and deletes users           *)
(* (SecuritySettings), the page that opens an invitation (InvitationPage), *)
(* and what the server answers both (auth/service.go).                     *)
(*                                                                         *)
(* An administrator's account needs a second factor: the page asks for a   *)
(* challenge, shows its secret, and sends the challenge's token with the   *)
(* account; the server answers with recovery codes, once.  Both pages go   *)
(* on when the challenge comes, whatever has been typed meanwhile.  The    *)
(* two browsers are the administrator's, in settings, and the invited one. *)
(*                                                                         *)
(* Abstractions.  A password is right, and safe (usePasswordSafety is in   *)
(* Onboarding); operator is like viewer; one invitation; a code is right   *)
(* for the secret on the screen or wrong; a page creates one account at a  *)
(* time; the other requests of settings are answered as they are served.   *)
(***************************************************************************)
EXTENDS Integers, Sequences, FiniteSets

CONSTANTS
    Account,        \* usernames
    Me,             \* the administrator in settings
    NoAccount,
    MaxChallenges,  \* bound: challenges asked for
    MaxSlips       \* bound: wrong codes, names typed and roles chosen again,
                    \* reloads, demotions, deletions, changes of the password

ASSUME EnrollmentAssumption ==
    Me \in Account /\ NoAccount \notin Account /\ MaxChallenges \in Nat /\ MaxSlips \in Nat

VARIABLES
    accounts,    \* the server's users: "demoted" is a viewer with a second factor
    invitation,  \* the server's invitation: its role, or "none", and whether it is used
    challenges,  \* the server's challenges: for which page and username, not consumed
    unsaved,     \* history: pages whose recovery codes exist and were not put aside
    invited,     \* InvitationPage, and where its browser is
    accepting,   \* acceptInvitation under way
    settings,    \* SecuritySettings and PasswordSection
    newUser,        \* NewUserSection
    creating,    \* createUser under way
    inviting,    \* InvitationSection shows the link
    users,       \* UsersSection: the users it knows, and whether it asks for them
    deletion,    \* UsersSection: deleteTarget, whether its name has been typed
    beginning,   \* challenges asked for: from which page, for which username
    slips

serverVars == <<accounts, invitation, challenges, unsaved>>
invitedVars == <<invited, accepting>>
sectionVars == <<inviting, users, deletion>>
settingsVars == <<settings, newUser, creating, sectionVars>>
enrollmentVars == <<serverVars, invitedVars, settingsVars, beginning, slips>>

AccountState == {"none", "viewer", "demoted", "admin"}

NoRequest == [status |-> "no", of |-> NoAccount, role |-> "viewer", challenge |-> 0,
              code |-> TRUE, heard |-> TRUE]
NewPage == [at |-> "form", role |-> "none", asking |-> TRUE, username |-> NoAccount,
            enrollment |-> 0, codes |-> FALSE, submitting |-> FALSE]
Elsewhere(place) == [NewPage EXCEPT !.at = place, !.asking = FALSE]
EmptyForm == [role |-> "viewer", username |-> NoAccount, enrollment |-> 0, codes |-> FALSE]
NoDeletion == [target |-> NoAccount, typed |-> FALSE]

EnrollmentInit ==
    /\ accounts = [u \in Account |-> IF u = Me THEN "admin" ELSE "none"]
    /\ invitation = [role |-> "none", used |-> FALSE] /\ challenges = << >> /\ unsaved = {}
    /\ invited = Elsewhere("away") /\ accepting = NoRequest
    /\ settings = "open" /\ newUser = EmptyForm /\ creating = NoRequest
    /\ inviting = FALSE /\ deletion = NoDeletion
    /\ users = [known |-> [u \in Account |-> "none"], fetching |-> TRUE]
    /\ beginning = {} /\ slips = 0

Slip == slips < MaxSlips /\ slips' = slips + 1
Changed(again) == IF again THEN Slip ELSE UNCHANGED slips

Ask(request) ==
    /\ Len(challenges) + Cardinality(beginning) < MaxChallenges
    /\ beginning' = beginning \union {request}

\* What a page has asked for goes on without it, and is answered to nobody.
Unheard(request) == IF request.status = "no" THEN request ELSE [request EXCEPT !.heard = FALSE]
Without(page) == {b \in beginning : b.page # page}

-----------------------------------------------------------------------------
(* The accounts on the server. *)

\* AcceptInvitation and CreateUser: for an administrator, the challenge is
\* the page's and the username's, and the code is right.
Proven(page, request) ==
    request.role = "admin" =>
        /\ request.challenge # 0 /\ request.code
        /\ challenges[request.challenge] = [page |-> page, of |-> request.of, live |-> TRUE]

Free(request) == accounts[request.of] = "none"

\* The challenge is consumed before the account is stored, which fails when
\* the username is taken.
Serve(page, request, allowed) ==
    LET proven == allowed /\ Proven(page, request)
        made == proven /\ Free(request) IN
    /\ request.status = "sent"
    /\ challenges' = IF proven /\ request.role = "admin"
                     THEN [challenges EXCEPT ![request.challenge].live = FALSE] ELSE challenges
    /\ accounts' = IF made THEN [accounts EXCEPT ![request.of] = request.role] ELSE accounts
    /\ unsaved' = IF made /\ request.role = "admin" /\ request.heard
                  THEN unsaved \union {page} ELSE unsaved

Outcome(page, request, allowed) ==
    IF allowed /\ Proven(page, request) /\ Free(request) THEN "made" ELSE "refused"

ServeInvitation ==
    /\ Serve("invited", accepting, ~invitation.used)
    /\ accepting' = [accepting EXCEPT !.status = Outcome("invited", accepting, ~invitation.used)]
    /\ invitation' = [invitation EXCEPT !.used = @ \/ accepting'.status = "made"]
    /\ UNCHANGED <<invited, settingsVars, beginning, slips>>

ServeUser ==
    /\ Serve("settings", creating, TRUE)
    /\ creating' = [creating EXCEPT !.status = Outcome("settings", creating, TRUE)]
    /\ UNCHANGED <<invitation, invitedVars, settings, newUser, sectionVars, beginning, slips>>

\* newRecoveryCodes runs for an administrator only, and the answer of another
\* has Go's nil slice, which is null in JSON.
recoveryCodes(request) == IF request.role = "admin" THEN "codes" ELSE "null"

-----------------------------------------------------------------------------
(* InvitationPage. *)

\* The link went from the administrator to the invited browser.
OpenInvitation ==
    /\ invited.at = "away" /\ inviting
    /\ invited' = NewPage
    /\ UNCHANGED <<serverVars, accepting, settingsVars, beginning, slips>>

StatusAnswered ==
    /\ invited.asking
    /\ invited' = [invited EXCEPT !.asking = FALSE,
                                  !.role = IF invitation.used THEN @ ELSE invitation.role]
    /\ UNCHANGED <<serverVars, accepting, settingsVars, beginning, slips>>

\* The inputs stay until an enrollment comes, a request under way or not.
TypeInvited(u) ==
    /\ invited.at = "form" /\ ~invited.codes /\ invited.enrollment = 0 /\ u # invited.username
    /\ Changed(invited.username # NoAccount) /\ invited' = [invited EXCEPT !.username = u]
    /\ UNCHANGED <<serverVars, accepting, settingsVars, beginning>>

Submittable ==
    /\ invited.at = "form" /\ ~invited.codes /\ ~invited.submitting /\ accepting.status = "no"
    /\ invited.role # "none" /\ invited.username # NoAccount

\* submit, for an administrator without an enrollment.
ConfigureInvited ==
    /\ Submittable /\ invited.role = "admin" /\ invited.enrollment = 0
    /\ invited' = [invited EXCEPT !.submitting = TRUE]
    /\ Ask([page |-> "invited", of |-> invited.username])
    /\ UNCHANGED <<serverVars, accepting, settingsVars, slips>>

\* A code matters to an administrator.
Enter(code, role) == (role = "viewer" => code) /\ Changed(~code)

\* submit, otherwise.
AcceptInvited(code) ==
    /\ Submittable /\ (invited.role = "admin" => invited.enrollment # 0)
    /\ Enter(code, invited.role)
    /\ invited' = [invited EXCEPT !.submitting = TRUE]
    /\ accepting' = [status |-> "sent", of |-> invited.username, role |-> invited.role,
                     challenge |-> invited.enrollment, code |-> code, heard |-> TRUE]
    /\ UNCHANGED <<serverVars, settingsVars, beginning>>

\* Mutant: the browser goes home without a look at the codes.
InvitationAcceptedOpening ==
    /\ accepting.status = "made" /\ accepting.heard /\ accepting' = NoRequest
    /\ invited' = IF recoveryCodes(accepting) = "null" THEN [invited EXCEPT !.at = "broken"]
                  ELSE Elsewhere("home")
    /\ UNCHANGED <<serverVars, settingsVars, beginning, slips>>

\* setRecoveryCodes comes first, and the page then renders the length of what
\* it was given: of null there is none, and the page is gone.
InvitationAccepted ==
    /\ accepting.status = "made" /\ accepting.heard /\ accepting' = NoRequest
    /\ invited' = IF recoveryCodes(accepting) = "null" THEN [invited EXCEPT !.at = "broken"]
                  ELSE [invited EXCEPT !.codes = TRUE, !.submitting = FALSE]
    /\ UNCHANGED <<serverVars, settingsVars, beginning, slips>>

InvitationRefused ==
    /\ accepting.status = "refused" /\ accepting.heard /\ accepting' = NoRequest
    /\ invited' = [invited EXCEPT !.submitting = FALSE]
    /\ UNCHANGED <<serverVars, settingsVars, beginning, slips>>

\* finish: the codes have been copied.
FinishInvited ==
    /\ invited.codes
    /\ invited' = Elsewhere("home") /\ unsaved' = unsaved \ {"invited"}
    /\ UNCHANGED <<accounts, invitation, challenges, accepting, settingsVars, beginning, slips>>

ReloadInvited ==
    /\ invited.at \in {"form", "broken"} /\ Slip
    /\ invited' = NewPage /\ accepting' = Unheard(accepting) /\ beginning' = Without("invited")
    /\ unsaved' = unsaved \ {"invited"}
    /\ UNCHANGED <<accounts, invitation, challenges, settingsVars>>

\* Answers nobody waits for.
Dismiss ==
    \/ /\ ~accepting.heard /\ accepting.status # "sent" /\ accepting' = NoRequest
       /\ UNCHANGED <<serverVars, invited, settingsVars, beginning, slips>>
    \/ /\ ~creating.heard /\ creating.status # "sent" /\ creating' = NoRequest
       /\ UNCHANGED <<serverVars, invitedVars, settings, newUser, sectionVars, beginning, slips>>

-----------------------------------------------------------------------------
(* The challenges: BeginInvitationTOTP and BeginUserTOTP, and setEnrollment, *)
(* whatever username is in the form by now.                                  *)

Entitled(request) ==
    IF request.page = "invited" THEN ~invitation.used ELSE settings \in {"open", "changing"}

TotpAnswered(request) ==
    /\ beginning' = beginning \ {request}
    /\ Entitled(request)
    /\ challenges' = Append(challenges, [page |-> request.page, of |-> request.of, live |-> TRUE])
    /\ \/ /\ request.page = "invited" /\ UNCHANGED newUser
          /\ invited' = [invited EXCEPT !.enrollment = Len(challenges'), !.submitting = FALSE]
       \/ /\ request.page = "settings" /\ UNCHANGED invited
          /\ newUser' = [newUser EXCEPT !.enrollment = Len(challenges')]
    /\ UNCHANGED <<accounts, invitation, unsaved, accepting, settings, creating, sectionVars, slips>>

TotpRefused(request) ==
    /\ beginning' = beginning \ {request}
    /\ ~Entitled(request)
    /\ invited' = IF request.page = "invited" THEN [invited EXCEPT !.submitting = FALSE] ELSE invited
    /\ UNCHANGED <<serverVars, accepting, settingsVars, slips>>

-----------------------------------------------------------------------------
(* InvitationSection and NewUserSection. *)

Signed == settings \in {"open", "changing"}

CreateInvitation(role) ==
    /\ Signed /\ invitation.role = "none"
    /\ invitation' = [role |-> role, used |-> FALSE] /\ inviting' = TRUE
    /\ UNCHANGED <<accounts, challenges, unsaved, invitedVars, settings, newUser, creating, users,
                   deletion, beginning, slips>>

Editable == settings # "closed" /\ ~newUser.codes

\* The role can be chosen after the enrollment too.
ChooseRole(role) ==
    /\ Editable /\ role # newUser.role /\ Changed(role = "viewer")
    /\ newUser' = [newUser EXCEPT !.role = role]
    /\ UNCHANGED <<serverVars, invitedVars, settings, creating, sectionVars, beginning>>

TypeUser(u) ==
    /\ Editable /\ newUser.enrollment = 0 /\ u # newUser.username
    /\ Changed(newUser.username # NoAccount) /\ newUser' = [newUser EXCEPT !.username = u]
    /\ UNCHANGED <<serverVars, invitedVars, settings, creating, sectionVars, beginning>>

\* "Configure 2FA": nothing says that one has been asked for already.
ConfigureUser ==
    /\ Editable /\ creating.status = "no" /\ newUser.username # NoAccount
    /\ newUser.role = "admin" /\ newUser.enrollment = 0
    /\ Ask([page |-> "settings", of |-> newUser.username])
    /\ UNCHANGED <<serverVars, invitedVars, settingsVars, slips>>

CreateUser(code) ==
    /\ Editable /\ creating.status = "no" /\ newUser.username # NoAccount
    /\ newUser.role = "admin" => newUser.enrollment # 0
    /\ Enter(code, newUser.role)
    /\ creating' = [status |-> IF Signed THEN "sent" ELSE "refused", of |-> newUser.username,
                    role |-> newUser.role, challenge |-> newUser.enrollment, code |-> code,
                    heard |-> TRUE]
    /\ UNCHANGED <<serverVars, invitedVars, settings, newUser, sectionVars, beginning>>

\* Without codes submit would clear the form and fetch the users again; the
\* length of null stops it before, and the form stays as it was sent.
UserCreated ==
    /\ creating.status = "made" /\ creating.heard /\ creating' = NoRequest
    /\ newUser' = IF recoveryCodes(creating) = "null" THEN newUser ELSE [newUser EXCEPT !.codes = TRUE]
    /\ UNCHANGED <<serverVars, invitedVars, settings, sectionVars, beginning, slips>>

UserRefused ==
    /\ creating.status = "refused" /\ creating.heard /\ creating' = NoRequest
    /\ UNCHANGED <<serverVars, invitedVars, settings, newUser, sectionVars, beginning, slips>>

\* "Create another user".
CreateAnother ==
    /\ newUser.codes /\ newUser' = EmptyForm /\ unsaved' = unsaved \ {"settings"}
    /\ users' = [users EXCEPT !.fetching = TRUE]
    /\ UNCHANGED <<accounts, invitation, challenges, invitedVars, settings, creating, inviting,
                   deletion, beginning, slips>>

-----------------------------------------------------------------------------
(* UsersSection. *)

IsListed(u) == users.known[u] # "none" /\ u # Me
ShownAs(u, role) == users.known[u] \in (IF role = "viewer" THEN {"viewer", "demoted"} ELSE {role})

UsersAnswered ==
    /\ users.fetching /\ Signed /\ users' = [known |-> accounts, fetching |-> FALSE]
    /\ UNCHANGED <<serverVars, invitedVars, settings, newUser, creating, inviting, deletion,
                   beginning, slips>>

\* ChangeUserRole: only an account with a second factor becomes administrator.
Promoted(u, role) ==
    CASE accounts[u] = "admin" /\ role = "viewer" -> "demoted"
      [] accounts[u] = "demoted" /\ role = "admin" -> "admin"
      [] OTHER -> accounts[u]

ChangeRole(u, role) ==
    /\ Signed /\ IsListed(u) /\ ~ShownAs(u, role) /\ Changed(role = "viewer")
    /\ accounts' = [accounts EXCEPT ![u] = Promoted(u, role)]
    /\ users' = [users EXCEPT !.fetching = @ \/ accounts[u] # accounts'[u]]
    /\ UNCHANGED <<invitation, challenges, unsaved, invitedVars, settings, newUser, creating,
                   inviting, deletion, beginning>>

AskDelete(u) ==
    /\ settings # "closed" /\ IsListed(u) /\ deletion' = [target |-> u, typed |-> FALSE]
    /\ UNCHANGED <<serverVars, invitedVars, settings, newUser, creating, inviting, users,
                   beginning, slips>>

\* The name is typed, or the deletion cancelled.
TypeName(next) ==
    /\ deletion.target # NoAccount /\ deletion' = next
    /\ UNCHANGED <<serverVars, invitedVars, settings, newUser, creating, inviting, users,
                   beginning, slips>>

confirmDelete ==
    /\ Signed /\ deletion.typed /\ Slip
    /\ accounts' = [accounts EXCEPT ![deletion.target] = "none"]
    /\ IF accounts = accounts' THEN UNCHANGED <<users, deletion>>
       ELSE deletion' = NoDeletion /\ users' = [users EXCEPT !.fetching = TRUE]
    /\ UNCHANGED <<invitation, challenges, unsaved, invitedVars, settings, newUser, creating,
                   inviting, beginning>>

-----------------------------------------------------------------------------
(* PasswordSection, and leaving the settings. *)

ChangePassword ==
    /\ settings = "open" /\ Slip /\ settings' = "changing"
    /\ UNCHANGED <<serverVars, invitedVars, newUser, creating, sectionVars, beginning>>

\* Every session is revoked, and what comes after it is refused.
RevokeSessions ==
    /\ settings = "changing" /\ settings' = "revoked"
    /\ creating' = IF creating.status = "sent" THEN [creating EXCEPT !.status = "refused"]
                   ELSE creating
    /\ UNCHANGED <<serverVars, invitedVars, newUser, sectionVars, beginning, slips>>

\* To /login when the password has changed, or to another page.
LeaveSettings ==
    /\ \/ settings = "revoked" /\ UNCHANGED slips
       \/ settings = "open" /\ Slip
    /\ settings' = "closed" /\ newUser' = EmptyForm /\ deletion' = NoDeletion
    /\ creating' = Unheard(creating) /\ beginning' = Without("settings")
    /\ unsaved' = unsaved \ {"settings"}
    /\ UNCHANGED <<accounts, invitation, challenges, invitedVars, inviting, users>>

\* The users are fetched again when their answer is five minutes old.
OpenSettings ==
    /\ settings = "closed" /\ settings' = "open"
    /\ \E stale \in BOOLEAN : users' = [users EXCEPT !.fetching = @ \/ stale]
    /\ UNCHANGED <<serverVars, invitedVars, newUser, creating, inviting, deletion, beginning, slips>>

EnrollmentNext ==
    \/ ServeInvitation \/ ServeUser \/ Dismiss
    \/ OpenInvitation \/ StatusAnswered \/ ConfigureInvited
    \/ InvitationAccepted \/ InvitationRefused \/ FinishInvited \/ ReloadInvited
    \/ \E u \in Account : TypeInvited(u) \/ TypeUser(u) \/ AskDelete(u)
    \/ \E code \in BOOLEAN : AcceptInvited(code) \/ CreateUser(code)
    \/ \E request \in beginning : TotpAnswered(request) \/ TotpRefused(request)
    \/ \E role \in {"viewer", "admin"} :
          CreateInvitation(role) \/ ChooseRole(role) \/ \E u \in Account : ChangeRole(u, role)
    \/ ConfigureUser \/ UserCreated \/ UserRefused \/ CreateAnother
    \/ UsersAnswered \/ confirmDelete
    \/ TypeName(NoDeletion) \/ TypeName([deletion EXCEPT !.typed = TRUE])
    \/ ChangePassword \/ RevokeSessions \/ LeaveSettings \/ OpenSettings

EnrollmentSpec == EnrollmentInit /\ [][EnrollmentNext]_enrollmentVars

-----------------------------------------------------------------------------
EnrollmentTypeOK ==
    /\ accounts \in [Account -> AccountState]
    /\ Len(challenges) <= MaxChallenges /\ unsaved \subseteq {"invited", "settings"}
    /\ invited.at \in {"away", "form", "broken", "home"}
    /\ invited.enrollment \in 0..Len(challenges) /\ newUser.enrollment \in 0..Len(challenges)
    /\ settings \in {"open", "changing", "revoked", "closed"}
    /\ users.known \in [Account -> AccountState]
    /\ deletion.target \in Account \union {NoAccount} /\ slips \in 0..MaxSlips

\* The recovery codes of an administrator's account are answered once
\* (acceptInvitation, createUser): while the page that asked for the account
\* waits for nothing more they are on its screen, through a second challenge
\* that comes late, another role chosen, roles changed and users deleted
\* beside it, until its user has put them aside or left.
EnrolledCodesStayAtHand ==
    /\ "invited" \in unsaved /\ accepting.status = "no" => invited.at = "form" /\ invited.codes
    /\ "settings" \in unsaved /\ creating.status = "no" => settings # "closed" /\ newUser.codes

\* An invitation that is accepted opens GlassStack, for every role: auth.ts
\* says of the answer that its recoveryCodes are an array, and the page goes
\* home when the array is empty.
AcceptedOpens ==
    [][accepting.status = "made" /\ accepting.heard /\ accepting'.status = "no" =>
          invited'.codes \/ invited'.at = "home"]_enrollmentVars

=============================================================================
