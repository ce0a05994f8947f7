----------------------------- MODULE Onboarding -----------------------------
(***************************************************************************)
(* The setup of a new server in the browser: OnboardingShell with its      *)
(* stages, the store they share, the check of the password against known   *)
(* leaks, and the enrollment of a second factor, whose recovery codes the  *)
(* server shows once.                                                      *)
(*                                                                         *)
(* Every stage writes the shared store from its answers, whichever stage   *)
(* is on the screen by then; the shell sends the browser back to the first *)
(* incomplete stage, and home once the setup query says that no setup is   *)
(* required, which a refetch on reconnection may do early.                 *)
(*                                                                         *)
(* Abstractions.  A token, a password or a code is one of two; a stage and *)
(* its animation are one; locale, theme and avatar are left out; a call of *)
(* a kind is made once at a time.                                          *)
(***************************************************************************)
EXTENDS Integers, Sequences, FiniteSets

CONSTANTS
    Username,
    NoUsername,
    MaxCodes,      \* bound: codes sent
    MaxMishaps     \* bound: requests that fail, reloads, reconnections

ASSUME OnboardingAssumption ==
    NoUsername \notin Username /\ MaxCodes \in Nat /\ MaxMishaps \in Nat

VARIABLES
    setupStatus,  \* the server and the query of GET /setup/status
    path,
    state,        \* useOnboardingStore
    safety,       \* usePasswordSafety of AccountPage
    validating,   \* the token validateSetupToken was sent with
    totp,         \* MfaPage: beginSetupTOTP under way, lastSubmittedCode
    completing,   \* completeSetup, and whether its document is in order
    finishing,    \* SecurityPage's finish
    codes,        \* codes sent
    mishaps,
    lost          \* history: the answer with the recovery codes never came

onboardingVars == <<setupStatus, path, state, safety, validating, totp, completing,
                    finishing, codes, mishaps, lost>>

stages == <<"connect", "account", "theme", "mfa", "security">>
Stage == {"connect", "account", "theme", "mfa", "security"}
Password == {"safe", "leaked"}
indexOf(s) == IF s \in {"welcome", "home"} THEN 0 ELSE CHOOSE i \in DOMAIN stages : stages[i] = s

initialState == [token |-> "", username |-> NoUsername, password |-> "", confirmed |-> FALSE,
                 enrollment |-> NoUsername, totpCode |-> "", recoveryCodes |-> FALSE,
                 completed |-> {}]
idleSafety == [status |-> "idle", of |-> "", submits |-> FALSE]
NoTotp == [asked |-> FALSE, last |-> ""]
NotCompleting == [status |-> "no", good |-> FALSE]

OnboardingInit ==
    /\ setupStatus = [required |-> TRUE, known |-> "unknown", error |-> FALSE, asking |-> TRUE]
    /\ path = "home" /\ state = initialState
    /\ safety = idleSafety /\ validating = "" /\ totp = NoTotp
    /\ completing = NotCompleting /\ finishing = FALSE
    /\ codes = 0 /\ mishaps = 0 /\ lost = FALSE

firstIncomplete(st) ==
    IF st.token = "" THEN "connect"
    ELSE LET left == {i \in 2..4 : stages[i] \notin st.completed} IN
         IF left = {} THEN "security" ELSE stages[CHOOSE i \in left : \A j \in left : i <= j]

\* A stage is shown and can be used.
On(s) == path = s /\ setupStatus.known = "required" /\ ~setupStatus.error

\* The shell renders path p: MfaPage asks for an enrollment when it mounts
\* without one, and loses what it knows when it leaves; AccountPage aborts
\* its check.  At home SetupGate decides, and a shell it sends to is new.
ShowStage(p, st, query) ==
    LET allowed == IF indexOf(p) <= indexOf(firstIncomplete(st)) THEN p ELSE firstIncomplete(st)
        at == IF query.error THEN p
              ELSE IF query.known = "complete" THEN "home"
              ELSE IF p # "home" THEN allowed
              ELSE IF query.known = "required" THEN "welcome" ELSE p IN
    /\ path' = at
    /\ state' = IF p = "home" THEN initialState ELSE st
    /\ totp' = IF at # "mfa" \/ query.error THEN NoTotp
               ELSE IF On("mfa") THEN totp
               ELSE [asked |-> st.enrollment = NoUsername /\ ~st.recoveryCodes, last |-> ""]
    /\ safety' = IF at = "account" /\ On("account") /\ ~query.error THEN safety ELSE idleSafety

Go(p, st) == ShowStage(p, st, setupStatus)

-----------------------------------------------------------------------------
(* The query of the setup, and the browser. *)

SetupAnswered ==
    /\ setupStatus.asking
    /\ setupStatus' = [setupStatus EXCEPT
          !.known = IF setupStatus.required THEN "required" ELSE "complete",
          !.error = FALSE, !.asking = FALSE]
    /\ ShowStage(path, state, setupStatus')
    /\ UNCHANGED <<validating, completing, finishing, codes, mishaps, lost>>

SetupFails ==
    /\ setupStatus.asking /\ mishaps < MaxMishaps /\ mishaps' = mishaps + 1
    /\ setupStatus' = [setupStatus EXCEPT !.error = TRUE, !.asking = FALSE]
    /\ ShowStage(path, state, setupStatus')
    /\ UNCHANGED <<validating, completing, finishing, codes, lost>>

\* The network is back, and the answer older than five minutes.
Reconnect ==
    /\ ~setupStatus.asking /\ mishaps < MaxMishaps /\ mishaps' = mishaps + 1
    /\ setupStatus' = [setupStatus EXCEPT !.asking = TRUE]
    /\ UNCHANGED <<path, state, safety, validating, totp, completing, finishing, codes, lost>>

\* The shell mounts again and resets the store; a setup that the server
\* still carries out is answered to nobody.
ReloadOnboarding ==
    /\ mishaps < MaxMishaps /\ mishaps' = mishaps + 1
    /\ setupStatus' = [setupStatus EXCEPT !.known = "unknown", !.error = FALSE, !.asking = TRUE]
    /\ path' = IF path \in {"home", "welcome"} THEN path ELSE "connect"
    /\ state' = initialState /\ safety' = idleSafety /\ totp' = NoTotp
    /\ validating' = "" /\ completing' = NotCompleting /\ finishing' = FALSE
    /\ lost' = (lost \/ ~setupStatus.required)
    /\ UNCHANGED codes

-----------------------------------------------------------------------------
(* The stages before the second factor. *)

Begin ==
    /\ On("welcome")
    /\ Go(IF state.token = "" THEN "connect" ELSE "account", state)
    /\ UNCHANGED <<setupStatus, validating, completing, finishing, codes, mishaps, lost>>

\* Typed, pasted, read from a file, or taken from the address.
EnterToken ==
    /\ On("connect")
    /\ \E t \in {"good", "bad"} \ {state.token} : Go(path, [state EXCEPT !.token = t])
    /\ UNCHANGED <<setupStatus, validating, completing, finishing, codes, mishaps, lost>>

SubmitToken ==
    /\ On("connect") /\ state.token # "" /\ validating = ""
    /\ validating' = state.token
    /\ UNCHANGED <<setupStatus, path, state, safety, totp, completing, finishing, codes, mishaps, lost>>

\* The answer goes on to the account from wherever the browser is.
TokenAnswered ==
    /\ validating # ""
    /\ validating' = ""
    /\ IF validating = "good" /\ setupStatus.required
       THEN Go("account", [state EXCEPT !.completed = @ \union {"connect"}])
       ELSE UNCHANGED <<path, state, safety, totp>>
    /\ UNCHANGED <<setupStatus, completing, finishing, codes, mishaps, lost>>

EditAccount ==
    /\ On("account")
    /\ \E u \in Username, ok \in BOOLEAN :
          state' = [state EXCEPT !.username = u, !.confirmed = ok]
    /\ UNCHANGED <<setupStatus, path, safety, validating, totp, completing, finishing, codes,
                   mishaps, lost>>

\* The effect on the password aborts the check of the one before.
EditPassword ==
    /\ On("account")
    /\ \E p \in Password \ {state.password} :
          state' = [state EXCEPT !.password = p, !.confirmed = FALSE]
    /\ safety' = idleSafety
    /\ UNCHANGED <<setupStatus, path, validating, totp, completing, finishing, codes, mishaps, lost>>

\* check: the field loses the focus, or the form is submitted, by the
\* footer's button or by Enter.
CheckPassword ==
    /\ On("account") /\ state.password # ""
    /\ \E submits \in BOOLEAN :
          /\ submits => state.username # NoUsername /\ state.confirmed
                        /\ safety.status \notin {"checking", "compromised"}
          /\ safety' = [status |-> "checking", of |-> state.password, submits |-> submits]
    /\ UNCHANGED <<setupStatus, path, state, validating, totp, completing, finishing, codes,
                   mishaps, lost>>

\* The answer, or "unavailable"; a submit goes on unless the password leaked.
PasswordChecked ==
    /\ safety.status = "checking"
    /\ \E s \in {IF safety.of = "leaked" THEN "compromised" ELSE "safe", "unavailable"} :
          IF safety.submits /\ s # "compromised"
          THEN Go("theme", [state EXCEPT !.completed = @ \union {"account"}])
          ELSE /\ safety' = [safety EXCEPT !.status = s, !.submits = FALSE]
               /\ UNCHANGED <<path, state, totp>>
    /\ UNCHANGED <<setupStatus, validating, completing, finishing, codes, mishaps, lost>>

ChooseTheme ==
    /\ On("theme")
    /\ Go("mfa", [state EXCEPT !.completed = @ \union {"theme"}])
    /\ UNCHANGED <<setupStatus, validating, completing, finishing, codes, mishaps, lost>>

\* The timeline's completed stages, and the arrow back.
goStage ==
    /\ path \in Stage /\ On(path)
    /\ \E s \in state.completed \ {path} :
          Go(s, state)
    /\ UNCHANGED <<setupStatus, validating, completing, finishing, codes, mishaps, lost>>

GoBack ==
    /\ path \in Stage /\ On(path)
    /\ LET before == IF path = "connect" THEN "welcome" ELSE stages[indexOf(path) - 1] IN
       /\ before \in {"welcome", "connect"} \union state.completed
       /\ Go(before, state)
    /\ UNCHANGED <<setupStatus, validating, completing, finishing, codes, mishaps, lost>>

-----------------------------------------------------------------------------
(* The second factor. *)

\* Heard only by the MfaPage that asked.  A failure is not tried again.
TotpBegun ==
    /\ totp.asked
    /\ totp' = [totp EXCEPT !.asked = FALSE]
    /\ state' = IF state.token = "good" /\ setupStatus.required
                THEN [state EXCEPT !.enrollment = state.username] ELSE state
    /\ UNCHANGED <<setupStatus, path, safety, validating, completing, finishing, codes, mishaps, lost>>

EnterTotp ==
    /\ On("mfa") /\ state.enrollment # NoUsername /\ ~state.recoveryCodes
    /\ \E c \in {"right", "wrong"} \ {state.totpCode} : state' = [state EXCEPT !.totpCode = c]
    /\ UNCHANGED <<setupStatus, path, safety, validating, totp, completing, finishing, codes,
                   mishaps, lost>>

\* The effect of every render submits a code it has not just submitted.
SubmitTotp ==
    /\ On("mfa") /\ state.enrollment # NoUsername /\ ~state.recoveryCodes
    /\ state.totpCode \notin {"", totp.last}
    /\ completing.status = "no" /\ codes < MaxCodes
    /\ completing' = [status |-> "sent",
                      good |-> /\ state.token = "good" /\ state.password = "safe"
                               /\ state.enrollment = state.username
                               /\ state.totpCode = "right"]
    /\ codes' = codes + 1
    /\ totp' = [totp EXCEPT !.last = state.totpCode]
    /\ UNCHANGED <<setupStatus, path, state, safety, validating, finishing, mishaps, lost>>

CompleteSetup ==
    /\ completing.status = "sent"
    /\ LET ok == completing.good /\ setupStatus.required IN
       /\ setupStatus' = [setupStatus EXCEPT !.required = @ /\ ~ok]
       /\ completing' = [completing EXCEPT !.status = IF ok THEN "accepted" ELSE "refused"]
    /\ UNCHANGED <<path, state, safety, validating, totp, finishing, codes, mishaps, lost>>

\* Mutant: the answer counts only while its page is on the screen.
SetupCompletedMounted ==
    /\ completing.status = "accepted"
    /\ completing' = NotCompleting
    /\ state' = IF On("mfa")
                THEN [state EXCEPT !.recoveryCodes = TRUE, !.completed = @ \union {"mfa"}]
                ELSE state
    /\ UNCHANGED <<setupStatus, path, safety, validating, totp, finishing, codes, mishaps, lost>>

\* submit after its answer, whether MfaPage is still on the screen or not.
SetupCompleted ==
    /\ completing.status = "accepted"
    /\ completing' = NotCompleting
    /\ state' = [state EXCEPT !.recoveryCodes = TRUE, !.completed = @ \union {"mfa"}]
    /\ UNCHANGED <<setupStatus, path, safety, validating, totp, finishing, codes, mishaps, lost>>

\* Refused, or an answer that never came: the code may be submitted again.
SetupRefused ==
    /\ completing' = NotCompleting /\ totp' = [totp EXCEPT !.last = ""]
    /\ \/ completing.status = "refused" /\ UNCHANGED <<mishaps, lost>>
       \/ /\ completing.status \in {"sent", "accepted"} /\ mishaps < MaxMishaps
          /\ mishaps' = mishaps + 1 /\ lost' = (lost \/ completing.status = "accepted")
    /\ UNCHANGED <<setupStatus, path, state, safety, validating, finishing, codes>>

Continue ==
    /\ On("mfa") /\ state.recoveryCodes
    /\ Go("security", state)
    /\ UNCHANGED <<setupStatus, validating, completing, finishing, codes, mishaps, lost>>

\* finish invalidates the setup query; its answer already sends the browser
\* home, and then finish resets the store.
Finish ==
    /\ On("security") /\ ~finishing
    /\ finishing' = TRUE
    /\ state' = [state EXCEPT !.completed = @ \union {"security"}]
    /\ setupStatus' = [setupStatus EXCEPT !.asking = TRUE]
    /\ UNCHANGED <<path, safety, validating, totp, completing, codes, mishaps, lost>>

Finished ==
    /\ finishing /\ ~setupStatus.asking
    /\ finishing' = FALSE
    /\ setupStatus' = [setupStatus EXCEPT !.asking = setupStatus.error]
    /\ ShowStage("home", initialState, setupStatus')
    /\ UNCHANGED <<validating, completing, codes, mishaps, lost>>

OnboardingNext ==
    \/ SetupAnswered \/ SetupFails \/ Reconnect \/ ReloadOnboarding
    \/ Begin \/ EnterToken \/ SubmitToken \/ TokenAnswered
    \/ EditAccount \/ EditPassword \/ CheckPassword \/ PasswordChecked \/ ChooseTheme
    \/ goStage \/ GoBack
    \/ TotpBegun \/ EnterTotp \/ SubmitTotp \/ CompleteSetup \/ SetupCompleted \/ SetupRefused
    \/ Continue \/ Finish \/ Finished

OnboardingSpec == OnboardingInit /\ [][OnboardingNext]_onboardingVars

-----------------------------------------------------------------------------
OnboardingTypeOK ==
    /\ path \in Stage \union {"welcome", "home"}
    /\ setupStatus.known \in {"unknown", "required", "complete"}
    /\ state.token \in {"", "good", "bad"} /\ state.password \in {""} \union Password
    /\ state.completed \subseteq Stage
    /\ state.enrollment \in Username \union {NoUsername}
    /\ completing.status \in {"no", "sent", "accepted", "refused"}
    /\ codes \in 0..MaxCodes /\ mishaps \in 0..MaxMishaps

\* The recovery codes are shown once: from the moment the account exists
\* they stay with the pages of the setup, through the way back, the
\* timeline, other tokens, passwords and accounts typed into it and an answer
\* that comes after the page has been left, until the browser has gone home;
\* only a lost answer or a reload takes them away.
CodesStayAtHand ==
    ~setupStatus.required /\ completing.status = "no" /\ ~lost /\ path # "home" => state.recoveryCodes

=============================================================================
