--------------------------- MODULE BrowserProofs ---------------------------
(***************************************************************************)
(* What is proved of the browser's pages that are the user's own: the      *)
(* setup (Onboarding), the accounts made after it (Enrollment), the        *)
(* session with its lock (Session), the dashboard's tiles (InstalledApps)  *)
(* and the listing of the store (StoreListing).  Five parts that share no  *)
(* state, each with an inductive invariant, a lemma per group of actions,  *)
(* and its theorems.                                                       *)
(*                                                                         *)
(*   - Onboarding and Enrollment: recovery codes are answered once, so the *)
(*     invariants follow them from the server through the answer to the    *)
(*     page that shows them, whatever comes between;                       *)
(*   - Session: the invariant of the cached query says of which session    *)
(*     its data and the answer under way are, the one of the overlay which *)
(*     panels can still take a lock away;                                  *)
(*   - InstalledApps: what is installed has one place each in the order    *)
(*     kept, and taking a tile out and putting it in at an index moves no  *)
(*     other past another;                                                 *)
(*   - StoreListing: every page cached is the slice of the results at its  *)
(*     place, and the next one is asked for only after whole ones.         *)
(***************************************************************************)
EXTENDS Onboarding, Enrollment, Session, InstalledApps, StoreListing,
        SequenceTheorems, FiniteSetTheorems, WellFoundedInduction, TLAPS

-----------------------------------------------------------------------------
(* Onboarding: the invariant. *)

SetupQuery == [required : BOOLEAN, known : {"unknown", "required", "complete"},
               error : BOOLEAN, asking : BOOLEAN]
Store == [token : {"", "good", "bad"}, username : Username \union {NoUsername},
          password : {""} \union Password, confirmed : BOOLEAN,
          enrollment : Username \union {NoUsername}, totpCode : {"", "right", "wrong"},
          recoveryCodes : BOOLEAN, completed : SUBSET Stage]
Safety == [status : {"idle", "checking", "safe", "compromised", "unavailable"},
           of : {""} \union Password, submits : BOOLEAN]
Totp == [asked : BOOLEAN, last : {"", "right", "wrong"}]
Completion == [status : {"no", "sent", "accepted", "refused"}, good : BOOLEAN]

\* The type of every variable, in full.
SetupState ==
    /\ setupStatus \in SetupQuery
    /\ path \in Stage \union {"welcome", "home"}
    /\ state \in Store
    /\ safety \in Safety
    /\ validating \in {"", "good", "bad"}
    /\ totp \in Totp
    /\ completing \in Completion
    /\ finishing \in BOOLEAN /\ lost \in BOOLEAN
    /\ codes \in 0..MaxCodes /\ mishaps \in 0..MaxMishaps

\* The server has completed the setup before an answer says so, before the
\* stages after it are reached, and before the browser goes home for it; the
\* answer of a password check comes to the page that asked for it.
SetupDone ==
    /\ completing.status = "accepted" => ~setupStatus.required
    /\ "mfa" \in state.completed => ~setupStatus.required
    /\ path = "security" => "mfa" \in state.completed
    /\ finishing => /\ ~setupStatus.required
                    /\ setupStatus.known = "required" => setupStatus.asking \/ setupStatus.error
    /\ safety.status = "checking" => path = "account"

\* The recovery codes stay, from the answer that brought them on.
CodesAreKept ==
    ~setupStatus.required /\ completing.status # "accepted" /\ ~lost /\ path # "home"
        => state.recoveryCodes

OnboardingInv == SetupState /\ SetupDone /\ CodesAreKept

-----------------------------------------------------------------------------
(* Onboarding: the stages. *)

\* The order of the stages.
LEMMA IndexOfStages ==
    /\ indexOf("connect") = 1 /\ indexOf("account") = 2 /\ indexOf("theme") = 3
    /\ indexOf("mfa") = 4 /\ indexOf("security") = 5
    /\ indexOf("welcome") = 0 /\ indexOf("home") = 0
<1>1. /\ DOMAIN stages = 1..5 /\ stages[1] = "connect" /\ stages[2] = "account"
      /\ stages[3] = "theme" /\ stages[4] = "mfa" /\ stages[5] = "security"
    BY DEF stages
<1>2. \A i \in 1..5 : i = 1 \/ i = 2 \/ i = 3 \/ i = 4 \/ i = 5
    OBVIOUS
<1>3. /\ (CHOOSE i \in DOMAIN stages : stages[i] = "connect") = 1
      /\ (CHOOSE i \in DOMAIN stages : stages[i] = "account") = 2
      /\ (CHOOSE i \in DOMAIN stages : stages[i] = "theme") = 3
      /\ (CHOOSE i \in DOMAIN stages : stages[i] = "mfa") = 4
      /\ (CHOOSE i \in DOMAIN stages : stages[i] = "security") = 5
    BY <1>1, <1>2
<1>4. QED
    BY <1>3 DEF indexOf

\* The first incomplete stage is a stage, and the last one only when the second
\* factor is done.
LEMMA FirstIncomplete ==
    ASSUME NEW st
    PROVE  /\ firstIncomplete(st) \in Stage
           /\ firstIncomplete(st) = "security" => "mfa" \in st.completed
<1> DEFINE left == {i \in 2..4 : stages[i] \notin st.completed}
<1>1. /\ stages[2] = "account" /\ stages[3] = "theme" /\ stages[4] = "mfa"
    BY DEF stages
<1>2. CASE st.token = ""
    BY <1>2 DEF firstIncomplete, Stage
<1>3. CASE st.token # "" /\ left = {}
    <2>1. 4 \notin left
        BY <1>3
    <2>2. firstIncomplete(st) = "security"
        BY <1>3 DEF firstIncomplete
    <2>3. QED
        BY <1>1, <2>1, <2>2 DEF Stage
<1>4. CASE st.token # "" /\ left # {}
    <2>1. \E i \in left : \A j \in left : i <= j
        <3>1. CASE 2 \in left
            BY <3>1
        <3>2. CASE 2 \notin left /\ 3 \in left
            BY <3>2
        <3>3. CASE 2 \notin left /\ 3 \notin left
            <4>1. \A i \in left : i = 4
                BY <3>3
            <4>2. PICK i \in left : TRUE
                BY <1>4
            <4>3. \A j \in left : i <= j
                BY <4>1, <4>2
            <4>4. QED
                BY <4>3
        <3>4. QED
            BY <3>1, <3>2, <3>3
    <2> DEFINE first == CHOOSE i \in left : \A j \in left : i <= j
    <2>2. first \in 2..4
        BY <2>1
    <2>3. firstIncomplete(st) = stages[first]
        BY <1>4 DEF firstIncomplete
    <2> HIDE DEF first, left
    <2>4. first = 2 \/ first = 3 \/ first = 4
        BY <2>2
    <2>5. QED
        BY <1>1, <2>3, <2>4 DEF Stage
<1>5. QED
    BY <1>2, <1>3, <1>4

\* What rendering a path may do: it reaches the last stage only after the second
\* factor, leaves home only for a setup that is required, forgets the store only
\* at home, and goes on with the check of the password only on its page.
LEMMA ShownStage ==
    ASSUME SetupState, NEW p \in Stage \union {"welcome", "home"}, NEW st \in Store,
           NEW query \in SetupQuery,
           ShowStage(p, st, query)
    PROVE  /\ path' \in Stage \union {"welcome", "home"}
           /\ path' = "security" => "mfa" \in st.completed \/ (p = "security" /\ query.error)
           /\ p = "home" => /\ state' = initialState
                            /\ path' \in {"home", "welcome"}
                            /\ path' = "welcome" => ~query.error /\ query.known = "required"
           /\ p # "home" => state' = st
           /\ state' \in Store /\ totp' \in Totp /\ safety' \in Safety
           /\ safety'.status = "checking" => path' = "account"
<1> DEFINE allowed == IF indexOf(p) <= indexOf(firstIncomplete(st)) THEN p ELSE firstIncomplete(st)
           at == IF query.error THEN p
                 ELSE IF query.known = "complete" THEN "home"
                 ELSE IF p # "home" THEN allowed
                 ELSE IF query.known = "required" THEN "welcome" ELSE p
<1>1. /\ path' = at
      /\ state' = IF p = "home" THEN initialState ELSE st
      /\ safety' = IF at = "account" /\ On("account") /\ ~query.error THEN safety ELSE idleSafety
    BY DEF ShowStage
<1>2. allowed \in Stage \union {"welcome", "home"}
    BY FirstIncomplete
<1>3. allowed = "security" => "mfa" \in st.completed
    <2>1. CASE allowed = firstIncomplete(st)
        BY <2>1, FirstIncomplete
    <2>2. CASE allowed # firstIncomplete(st) /\ p = "security"
        <3>1. indexOf("security") <= indexOf(firstIncomplete(st))
            BY <2>2
        <3>2. firstIncomplete(st) = "security"
            BY <3>1, FirstIncomplete, IndexOfStages DEF Stage
        <3>3. QED
            BY <2>2, <3>2
    <2>3. QED
        BY <2>1, <2>2
<1> HIDE DEF allowed
<1>4. /\ at \in Stage \union {"welcome", "home"}
      /\ at = "security" => "mfa" \in st.completed \/ (p = "security" /\ query.error)
      /\ p = "home" => /\ at \in {"home", "welcome"}
                       /\ at = "welcome" => ~query.error /\ query.known = "required"
    BY <1>2, <1>3
<1> HIDE DEF at
<1>5. safety' \in Safety /\ (safety'.status = "checking" => at = "account")
    BY <1>1 DEF idleSafety, Safety, SetupState
<1>6. state' \in Store
    BY <1>1, OnboardingAssumption DEF initialState, Store
<1>7. totp' \in Totp
    BY <1>1 DEF ShowStage, NoTotp, Totp, SetupState, Store
<1>8. QED
    BY <1>1, <1>4, <1>5, <1>6, <1>7

-----------------------------------------------------------------------------
(* Onboarding: the invariant is inductive. *)

LEMMA OnboardingInitially == OnboardingInit => OnboardingInv
<1> SUFFICES ASSUME OnboardingInit PROVE OnboardingInv
    OBVIOUS
<1>1. SetupState
    <2>1. setupStatus \in SetupQuery /\ path \in Stage \union {"welcome", "home"}
        BY DEF OnboardingInit, SetupQuery
    <2>2. state \in Store
        BY DEF OnboardingInit, Store, initialState
    <2>3. safety \in Safety /\ totp \in Totp /\ completing \in Completion
        BY DEF OnboardingInit, Safety, Totp, Completion, idleSafety, NoTotp, NotCompleting
    <2>4. finishing \in BOOLEAN /\ lost \in BOOLEAN
        BY Zenon DEF OnboardingInit
    <2>5. /\ validating \in {"", "good", "bad"}
          /\ codes \in 0..MaxCodes /\ mishaps \in 0..MaxMishaps
        <3>1. validating \in {"", "good", "bad"} /\ codes = 0 /\ mishaps = 0
            BY DEF OnboardingInit
        <3>2. MaxCodes \in Nat /\ MaxMishaps \in Nat
            BY OnboardingAssumption DEF OnboardingAssumption
        <3>3. 0 \in 0..MaxCodes /\ 0 \in 0..MaxMishaps
            BY <3>2
        <3>4. QED
            BY <3>1, <3>3
    <2>6. QED
        BY <2>1, <2>2, <2>3, <2>4, <2>5 DEF SetupState
<1>2. SetupDone /\ CodesAreKept
    BY DEF OnboardingInit, SetupDone, CodesAreKept, initialState, idleSafety, NotCompleting
<1>3. QED
    BY <1>1, <1>2 DEF OnboardingInv

\* A step that shows a stage, of a store that keeps its codes and what is done,
\* with an answer that leaves home only for a setup that is required.
LEMMA ShowingKeepsInv ==
    ASSUME OnboardingInv, NEW p \in Stage \union {"welcome", "home"}, NEW st \in Store,
           SetupState', ShowStage(p, st, setupStatus'),
           setupStatus'.required = setupStatus.required,
           p = "security" => path = "security" \/ ~setupStatus'.error,
           path = "home" /\ p # "home" => setupStatus.required,
           setupStatus.known' = "required" /\ ~setupStatus'.error /\ p = "home"
               => setupStatus.required,
           st.recoveryCodes = state.recoveryCodes,
           "mfa" \in state.completed <=> "mfa" \in st.completed,
           completing' = completing, lost' \in {TRUE, lost}, finishing' \in {FALSE, finishing},
           finishing' /\ setupStatus'.known = "required"
               => setupStatus'.asking \/ setupStatus'.error
    PROVE  OnboardingInv'
<1>1. /\ path' = "security" => "mfa" \in st.completed \/ (p = "security" /\ setupStatus'.error)
      /\ p = "home" => /\ state' = initialState
                       /\ path' \in {"home", "welcome"}
                       /\ path' = "welcome" => ~setupStatus'.error /\ setupStatus'.known = "required"
      /\ p # "home" => state' = st
      /\ safety'.status = "checking" => path' = "account"
    <2>1. setupStatus' \in SetupQuery
        BY DEF SetupState
    <2>2. QED
        BY <2>1, ShownStage DEF OnboardingInv
<1>2. SetupDone'
    <2>1. completing'.status = "accepted" => ~setupStatus'.required
        BY DEF OnboardingInv, SetupDone
    <2>2. "mfa" \in state'.completed => ~setupStatus'.required
        <3>1. "mfa" \notin initialState.completed
            BY DEF initialState
        <3>2. "mfa" \in state'.completed => "mfa" \in state.completed
            BY <1>1, <3>1
        <3>3. QED
            BY <3>2 DEF OnboardingInv, SetupDone
    <2>3. path' = "security" => "mfa" \in state'.completed
        BY <1>1 DEF OnboardingInv, SetupDone
    <2>4. finishing' => ~setupStatus'.required
        BY Zenon DEF OnboardingInv, SetupDone
    <2>5. QED
        BY <1>1, <2>1, <2>2, <2>3, <2>4, Zenon DEF SetupDone
<1>3. CodesAreKept'
    BY <1>1 DEF OnboardingInv, CodesAreKept
<1>4. QED
    BY <1>2, <1>3 DEF OnboardingInv

LEMMA IdleIsSafety == idleSafety \in Safety /\ idleSafety.status = "idle"
BY DEF idleSafety, Safety

LEMMA NobodyCompletes == NotCompleting \in Completion /\ NotCompleting.status = "no"
BY DEF NotCompleting, Completion

\* The bounded counters.
LEMMA CountersInRange ==
    ASSUME OnboardingInv
    PROVE  /\ mishaps < MaxMishaps /\ mishaps' = mishaps + 1 => mishaps' \in 0..MaxMishaps
           /\ codes < MaxCodes /\ codes' = codes + 1 => codes' \in 0..MaxCodes
<1>1. MaxCodes \in Nat /\ MaxMishaps \in Nat
    BY OnboardingAssumption DEF OnboardingAssumption
<1>2. mishaps \in 0..MaxMishaps /\ codes \in 0..MaxCodes
    BY DEF OnboardingInv, SetupState
<1>3. QED
    BY <1>1, <1>2

\* Every way from a page to another that leaves the setup query alone.
LEMMA GoingKeepsInv ==
    ASSUME OnboardingInv, NEW p \in Stage \union {"welcome"}, NEW st \in Store, Go(p, st),
           st.recoveryCodes = state.recoveryCodes,
           "mfa" \in state.completed <=> "mfa" \in st.completed,
           p = "security" => ~setupStatus.error,
           path = "home" => setupStatus.required,
           validating' \in {"", validating},
           UNCHANGED <<setupStatus, completing, finishing, codes, mishaps, lost>>
    PROVE  OnboardingInv'
<1>1. p \in Stage \union {"welcome", "home"} /\ p # "home" /\ setupStatus \in SetupQuery
    BY DEF Stage, OnboardingInv, SetupState
<1>2. ShowStage(p, st, setupStatus) /\ ShowStage(p, st, setupStatus')
    BY Zenon DEF Go
<1>3. SetupState'
    <2>1. /\ path' \in Stage \union {"welcome", "home"} /\ state' \in Store /\ totp' \in Totp
          /\ safety' \in Safety
        BY <1>1, <1>2, ShownStage DEF OnboardingInv
    <2>2. QED
        BY <2>1 DEF OnboardingInv, SetupState
<1>4. finishing' /\ setupStatus'.known = "required" => setupStatus'.asking \/ setupStatus'.error
    BY Zenon DEF OnboardingInv, SetupDone
<1>5. QED
    BY <1>1, <1>2, <1>3, <1>4, ShowingKeepsInv

LEMMA WayThrough ==
    ASSUME OnboardingInv,
           \/ Begin \/ EnterToken \/ TokenAnswered \/ ChooseTheme \/ goStage \/ GoBack \/ Continue
    PROVE  OnboardingInv'
<1>0. state \in Store /\ path \in Stage \union {"welcome", "home"}
    BY DEF OnboardingInv, SetupState
<1>1. CASE Begin
    <2>1. PICK p \in {"connect", "account"} : Go(p, state)
        BY <1>1 DEF Begin
    <2>2. path # "home" /\ p \in Stage \union {"welcome"} /\ p # "security"
        BY <1>1 DEF Begin, On, Stage
    <2>3. QED
        BY <1>0, <1>1, <2>1, <2>2, GoingKeepsInv DEF Begin
<1>2. CASE EnterToken
    <2>1. PICK t \in {"good", "bad"} : Go(path, [state EXCEPT !.token = t])
        BY <1>2 DEF EnterToken
    <2>2. path = "connect"
        BY <1>2 DEF EnterToken, On
    <2>3. [state EXCEPT !.token = t] \in Store
        BY <1>0 DEF Store
    <2>4. /\ [state EXCEPT !.token = t].recoveryCodes = state.recoveryCodes
          /\ [state EXCEPT !.token = t].completed = state.completed
        BY <1>0 DEF Store
    <2>5. path \in Stage \union {"welcome"} /\ path # "security" /\ path # "home"
        BY <2>2 DEF Stage
    <2>6. QED
        BY <1>2, <2>1, <2>3, <2>4, <2>5, GoingKeepsInv DEF EnterToken
<1>3. CASE TokenAnswered
    <2> DEFINE st == [state EXCEPT !.completed = @ \union {"connect"}]
    <2>1. st \in Store /\ st.recoveryCodes = state.recoveryCodes
          /\ ("mfa" \in state.completed <=> "mfa" \in st.completed)
        BY <1>0 DEF Store, Stage
    <2>2. CASE validating = "good" /\ setupStatus.required
        <3>1. Go("account", st)
            BY <1>3, <2>2 DEF TokenAnswered
        <3>2. "account" \in Stage \union {"welcome"}
            BY DEF Stage
        <3> HIDE DEF st
        <3>3. QED
            BY <1>3, <2>1, <2>2, <3>1, <3>2, GoingKeepsInv DEF TokenAnswered
    <2>3. CASE ~(validating = "good" /\ setupStatus.required)
        <3>1. /\ UNCHANGED <<setupStatus, path, state, safety, totp, completing, finishing,
                             codes, mishaps, lost>>
              /\ validating' = ""
            BY <1>3, <2>3, Zenon DEF TokenAnswered
        <3>2. QED
            BY <3>1 DEF OnboardingInv, SetupState, SetupDone, CodesAreKept
    <2>4. QED
        BY <2>2, <2>3
<1>4. CASE ChooseTheme
    <2> DEFINE st == [state EXCEPT !.completed = @ \union {"theme"}]
    <2>1. st \in Store /\ st.recoveryCodes = state.recoveryCodes
          /\ ("mfa" \in state.completed <=> "mfa" \in st.completed)
        BY <1>0 DEF Store, Stage
    <2>2. Go("mfa", st) /\ path # "home" /\ "mfa" \in Stage \union {"welcome"}
        BY <1>4 DEF ChooseTheme, On, Stage
    <2> HIDE DEF st
    <2>3. QED
        BY <1>4, <2>1, <2>2, GoingKeepsInv DEF ChooseTheme
<1>5. CASE goStage
    <2>1. PICK s \in state.completed : Go(s, state)
        BY <1>5 DEF goStage
    <2>2. s \in Stage \union {"welcome"} /\ path # "home" /\ ~setupStatus.error
        BY <1>0, <1>5 DEF goStage, On, Store, Stage
    <2>3. QED
        BY <1>0, <1>5, <2>1, <2>2, GoingKeepsInv DEF goStage
<1>6. CASE GoBack
    <2>1. PICK s \in {"welcome", "connect"} \union state.completed : Go(s, state)
        BY <1>6 DEF GoBack
    <2>2. s \in Stage \union {"welcome"} /\ path # "home" /\ ~setupStatus.error
        BY <1>0, <1>6 DEF GoBack, On, Store, Stage
    <2>3. QED
        BY <1>0, <1>6, <2>1, <2>2, GoingKeepsInv DEF GoBack
<1>7. CASE Continue
    <2>1. /\ Go("security", state) /\ path # "home" /\ ~setupStatus.error
          /\ "security" \in Stage \union {"welcome"}
        BY <1>7 DEF Continue, On, Stage
    <2>2. QED
        BY <1>0, <1>7, <2>1, GoingKeepsInv DEF Continue
<1>8. QED
    BY <1>1, <1>2, <1>3, <1>4, <1>5, <1>6, <1>7

\* The answer of the password check: the account is done, or only the check is.
LEMMA PasswordCheckedKeepsInv == ASSUME OnboardingInv, PasswordChecked PROVE OnboardingInv'
<1> DEFINE st == [state EXCEPT !.completed = @ \union {"account"}]
<1>0. /\ state \in Store /\ safety \in Safety /\ path = "account"
      /\ UNCHANGED <<setupStatus, validating, completing, finishing, codes, mishaps, lost>>
    BY DEF OnboardingInv, SetupState, SetupDone, PasswordChecked
<1>1. PICK s \in {"compromised", "safe", "unavailable"} :
          IF safety.submits /\ s # "compromised"
          THEN Go("theme", st)
          ELSE /\ safety' = [safety EXCEPT !.status = s, !.submits = FALSE]
               /\ UNCHANGED <<path, state, totp>>
    BY DEF PasswordChecked
<1>2. st \in Store /\ st.recoveryCodes = state.recoveryCodes
      /\ ("mfa" \in state.completed <=> "mfa" \in st.completed)
    BY <1>0 DEF Store, Stage
<1> HIDE DEF st
<1>3. CASE Go("theme", st)
    <2>1. "theme" \in Stage \union {"welcome"}
        BY DEF Stage
    <2>2. QED
        BY <1>0, <1>2, <1>3, <2>1, GoingKeepsInv
<1>4. CASE /\ safety' = [safety EXCEPT !.status = s, !.submits = FALSE]
           /\ UNCHANGED <<path, state, totp>>
    <2>1. safety' \in Safety /\ safety'.status # "checking"
        BY <1>0, <1>1, <1>4 DEF Safety
    <2>2. QED
        BY <1>0, <1>4, <2>1 DEF OnboardingInv, SetupState, SetupDone, CodesAreKept
<1>5. QED
    BY <1>1, <1>3, <1>4

\* The setup query, on whichever page its answer comes.
LEMMA QueryAnswered ==
    ASSUME OnboardingInv, SetupAnswered \/ SetupFails \/ Finished
    PROVE  OnboardingInv'
<1>0. /\ state \in Store /\ path \in Stage \union {"welcome", "home"} /\ setupStatus \in SetupQuery
      /\ initialState \in Store
    BY OnboardingAssumption DEF OnboardingAssumption, OnboardingInv, SetupState, initialState, Store
<1>1. CASE SetupAnswered
    <2>1. /\ setupStatus' = [setupStatus EXCEPT
                !.known = IF setupStatus.required THEN "required" ELSE "complete",
                !.error = FALSE, !.asking = FALSE]
          /\ ShowStage(path, state, setupStatus')
          /\ UNCHANGED <<validating, completing, finishing, codes, mishaps, lost>>
        BY <1>1 DEF SetupAnswered
    <2>2. /\ setupStatus' \in SetupQuery /\ setupStatus'.required = setupStatus.required
          /\ ~setupStatus'.error
          /\ setupStatus'.known = "required" => setupStatus.required
        BY <1>0, <2>1 DEF SetupQuery
    <2>3. SetupState'
        BY <1>0, <2>1, <2>2, ShownStage DEF OnboardingInv, SetupState
    <2>4. finishing' /\ setupStatus'.known = "required" => setupStatus'.asking \/ setupStatus'.error
        BY <2>1, <2>2, Zenon DEF OnboardingInv, SetupDone
    <2>5. QED
        BY <1>0, <2>1, <2>2, <2>3, <2>4, ShowingKeepsInv
<1>2. CASE SetupFails
    <2>1. /\ setupStatus' = [setupStatus EXCEPT !.error = TRUE, !.asking = FALSE]
          /\ ShowStage(path, state, setupStatus')
          /\ mishaps < MaxMishaps /\ mishaps' = mishaps + 1
          /\ UNCHANGED <<validating, completing, finishing, codes, lost>>
        BY <1>2 DEF SetupFails
    <2>2. /\ setupStatus' \in SetupQuery /\ setupStatus'.required = setupStatus.required
          /\ setupStatus'.error
        BY <1>0, <2>1 DEF SetupQuery
    <2>3. mishaps' \in 0..MaxMishaps
        BY <2>1, CountersInRange
    <2>4. SetupState'
        BY <1>0, <2>1, <2>2, <2>3, ShownStage DEF OnboardingInv, SetupState
    <2>5. QED
        BY <1>0, <2>1, <2>2, <2>4, ShowingKeepsInv
<1>3. CASE Finished
    <2>1. /\ finishing /\ ~setupStatus.asking /\ finishing' = FALSE
          /\ setupStatus' = [setupStatus EXCEPT !.asking = setupStatus.error]
          /\ ShowStage("home", initialState, setupStatus')
          /\ UNCHANGED <<validating, completing, codes, mishaps, lost>>
        BY <1>3, Zenon DEF Finished
    <2>2. /\ setupStatus' \in SetupQuery /\ setupStatus'.required = setupStatus.required
          /\ setupStatus'.error = setupStatus.error /\ setupStatus'.known = setupStatus.known
        BY <1>0, <2>1 DEF SetupQuery
    <2>3. ~setupStatus.required /\ (setupStatus.known = "required" => setupStatus.error)
        BY <2>1, Zenon DEF OnboardingInv, SetupDone
    <2>4. /\ path' \in {"home", "welcome"} /\ state' = initialState
          /\ path' = "welcome" => ~setupStatus'.error /\ setupStatus'.known = "required"
          /\ totp' \in Totp /\ safety' \in Safety
          /\ safety'.status = "checking" => path' = "account"
        BY <1>0, <2>1, <2>2, ShownStage DEF OnboardingInv
    <2>5. path' = "home"
        BY <2>2, <2>3, <2>4
    <2>6. SetupState'
        BY <1>0, <2>1, <2>2, <2>4, <2>5, Zenon DEF OnboardingInv, SetupState
    <2>7. SetupDone'
        <3>1. "mfa" \notin state'.completed
            BY <2>4 DEF initialState
        <3>2. QED
            BY <2>1, <2>2, <2>4, <2>5, <3>1 DEF OnboardingInv, SetupDone
    <2>8. CodesAreKept'
        BY <2>5 DEF CodesAreKept
    <2>9. QED
        BY <2>6, <2>7, <2>8 DEF OnboardingInv
<1>4. QED
    BY <1>1, <1>2, <1>3

\* The steps that show no other page.
LEMMA StepsOfAPage ==
    ASSUME OnboardingInv,
           \/ Reconnect \/ SubmitToken \/ EditAccount \/ EditPassword \/ CheckPassword
           \/ TotpBegun \/ EnterTotp \/ Finish
    PROVE  OnboardingInv'
<1>0. /\ state \in Store /\ path \in Stage \union {"welcome", "home"} /\ setupStatus \in SetupQuery
      /\ totp \in Totp /\ safety \in Safety /\ mishaps \in 0..MaxMishaps
      /\ validating \in {"", "good", "bad"}
    BY DEF OnboardingInv, SetupState
<1> USE DEF OnboardingInv
<1>1. CASE Reconnect
    <2>1. /\ setupStatus' \in SetupQuery /\ setupStatus'.required = setupStatus.required
          /\ setupStatus'.known = setupStatus.known /\ setupStatus'.asking
          /\ mishaps' = mishaps + 1 /\ mishaps < MaxMishaps
          /\ UNCHANGED <<path, state, safety, validating, totp, completing, finishing, codes, lost>>
        BY <1>0, <1>1 DEF Reconnect, SetupQuery
    <2>2. mishaps' \in 0..MaxMishaps
        BY <2>1, CountersInRange
    <2>3. QED
        BY <2>1, <2>2, Zenon DEF SetupState, SetupDone, CodesAreKept
<1>2. CASE SubmitToken
    <2>1. /\ validating' \in {"", "good", "bad"}
          /\ UNCHANGED <<setupStatus, path, state, safety, totp, completing, finishing, codes,
                         mishaps, lost>>
        BY <1>0, <1>2 DEF SubmitToken, Store
    <2>2. QED
        BY <2>1 DEF SetupState, SetupDone, CodesAreKept
<1>3. CASE EditAccount \/ EnterTotp
    <2>1. /\ state' \in Store /\ state'.recoveryCodes = state.recoveryCodes
          /\ state'.completed = state.completed
        BY <1>0, <1>3 DEF EditAccount, EnterTotp, Store
    <2>2. UNCHANGED <<setupStatus, path, safety, validating, totp, completing, finishing, codes,
                      mishaps, lost>>
        BY <1>3 DEF EditAccount, EnterTotp
    <2>3. QED
        BY <2>1, <2>2 DEF SetupState, SetupDone, CodesAreKept
<1>4. CASE EditPassword
    <2>1. /\ state' \in Store /\ state'.recoveryCodes = state.recoveryCodes
          /\ state'.completed = state.completed
        BY <1>0, <1>4 DEF EditPassword, Store
    <2>2. safety' \in Safety /\ safety'.status = "idle"
        BY <1>4, IdleIsSafety DEF EditPassword
    <2>3. UNCHANGED <<setupStatus, path, validating, totp, completing, finishing, codes,
                      mishaps, lost>>
        BY <1>4 DEF EditPassword
    <2>4. safety'.status # "checking"
        BY <2>2
    <2>5. QED
        BY <2>1, <2>2, <2>3, <2>4, Zenon DEF SetupState, SetupDone, CodesAreKept
<1>5. CASE CheckPassword
    <2>1. /\ path = "account"
          /\ UNCHANGED <<setupStatus, path, state, validating, totp, completing, finishing, codes,
                         mishaps, lost>>
        BY <1>5 DEF CheckPassword, On
    <2>2. PICK submits \in BOOLEAN :
              safety' = [status |-> "checking", of |-> state.password, submits |-> submits]
        BY <1>5 DEF CheckPassword
    <2>3. safety' \in Safety
        BY <1>0, <2>2 DEF Safety, Store
    <2>4. QED
        BY <2>1, <2>3 DEF SetupState, SetupDone, CodesAreKept
<1>6. CASE TotpBegun
    <2>1. /\ totp' \in Totp /\ state' \in Store /\ state'.recoveryCodes = state.recoveryCodes
          /\ state'.completed = state.completed
          /\ UNCHANGED <<setupStatus, path, safety, validating, completing, finishing, codes,
                         mishaps, lost>>
        BY <1>0, <1>6 DEF TotpBegun, Totp, Store
    <2>2. QED
        BY <2>1 DEF SetupState, SetupDone, CodesAreKept
<1>7. CASE Finish
    <2>1. /\ state' \in Store /\ state'.recoveryCodes = state.recoveryCodes
          /\ "mfa" \in state'.completed <=> "mfa" \in state.completed
          /\ setupStatus' \in SetupQuery /\ setupStatus'.required = setupStatus.required
          /\ setupStatus'.known = setupStatus.known /\ setupStatus'.asking
          /\ path = "security"
          /\ UNCHANGED <<path, safety, validating, totp, completing, codes, mishaps, lost>>
        BY <1>0, <1>7 DEF Finish, On, Store, SetupQuery, Stage
    <2>2. finishing' = TRUE
        BY <1>7, Zenon DEF Finish
    <2>3. ~setupStatus.required
        BY <2>1 DEF SetupDone
    <2>4. SetupState'
        BY <2>1, <2>2, Zenon DEF SetupState
    <2>5. QED
        BY <2>1, <2>2, <2>3, <2>4, Zenon DEF SetupDone, CodesAreKept
<1>8. QED
    BY <1>1, <1>2, <1>3, <1>4, <1>5, <1>6, <1>7

\* The setup is sent, served and answered, or the page loaded again.
LEMMA CompletionKeepsInv ==
    ASSUME OnboardingInv,
           SubmitTotp \/ CompleteSetup \/ SetupCompleted \/ SetupRefused \/ ReloadOnboarding
    PROVE  OnboardingInv'
<1>0. /\ state \in Store /\ path \in Stage \union {"welcome", "home"} /\ setupStatus \in SetupQuery
      /\ totp \in Totp /\ safety \in Safety /\ mishaps \in 0..MaxMishaps /\ codes \in 0..MaxCodes
      /\ completing \in Completion /\ lost \in BOOLEAN
    BY DEF OnboardingInv, SetupState
<1> USE DEF OnboardingInv
<1>1. CASE SubmitTotp
    <2>1. /\ totp' \in Totp /\ completing.status = "no"
          /\ UNCHANGED <<setupStatus, path, state, safety, validating, finishing, mishaps, lost>>
        BY <1>0, <1>1 DEF SubmitTotp, Totp, Store
    <2>2. completing' \in Completion /\ completing'.status = "sent"
        <3>1. \A good \in BOOLEAN : [status |-> "sent", good |-> good] \in Completion
            BY DEF Completion
        <3>2. \E good \in BOOLEAN : completing' = [status |-> "sent", good |-> good]
            <4>1. \E good : good \in BOOLEAN /\ completing' = [status |-> "sent", good |-> good]
                BY <1>1, Zenon DEF SubmitTotp
            <4>2. QED
                BY <4>1
        <3>3. QED
            BY <3>1, <3>2
    <2>3. codes' \in 0..MaxCodes
        BY <1>1, CountersInRange DEF SubmitTotp
    <2>4. QED
        BY <2>1, <2>2, <2>3 DEF SetupState, SetupDone, CodesAreKept
<1>2. CASE CompleteSetup
    <2>1. /\ completing' \in Completion /\ setupStatus' \in SetupQuery
          /\ completing.status = "sent" /\ completing'.status \in {"accepted", "refused"}
          /\ completing'.status = "accepted" => ~setupStatus'.required
          /\ completing'.status = "refused" => setupStatus'.required = setupStatus.required
          /\ ~setupStatus.required => ~setupStatus'.required
          /\ setupStatus'.known = setupStatus.known /\ setupStatus'.asking = setupStatus.asking
          /\ setupStatus'.error = setupStatus.error
          /\ UNCHANGED <<path, state, safety, validating, totp, finishing, codes, mishaps, lost>>
        BY <1>0, <1>2 DEF CompleteSetup, Completion, SetupQuery
    <2>2. SetupState'
        BY <2>1 DEF SetupState
    <2>3. QED
        BY <2>1, <2>2, Zenon DEF SetupDone, CodesAreKept
<1>3. CASE SetupCompleted
    <2>1. /\ completing' \in Completion /\ completing'.status = "no" /\ completing.status = "accepted"
          /\ state' \in Store /\ state'.recoveryCodes
          /\ "mfa" \in state'.completed
          /\ UNCHANGED <<setupStatus, path, safety, validating, totp, finishing, codes, mishaps, lost>>
        BY <1>0, <1>3 DEF SetupCompleted, NotCompleting, Completion, Store, Stage
    <2>2. QED
        BY <2>1 DEF SetupState, SetupDone, CodesAreKept
<1>4. CASE SetupRefused
    <2>1. /\ completing' \in Completion /\ completing'.status = "no" /\ completing.status # "no"
          /\ totp' \in Totp /\ mishaps' \in 0..MaxMishaps
          /\ UNCHANGED <<setupStatus, path, state, safety, validating, finishing, codes>>
        <3>1. completing' \in Completion /\ completing'.status = "no"
            BY <1>4, NobodyCompletes DEF SetupRefused
        <3>2. totp' \in Totp
            BY <1>0, <1>4 DEF SetupRefused, Totp
        <3>3. completing.status # "no" /\ mishaps' \in 0..MaxMishaps
            BY <1>0, <1>4, CountersInRange DEF SetupRefused
        <3>4. QED
            BY <1>4, <3>1, <3>2, <3>3 DEF SetupRefused
    <2>2. lost' \in BOOLEAN /\ (lost => lost') /\ (completing.status = "accepted" => lost')
        BY <1>0, <1>4, Zenon DEF SetupRefused
    <2>3. SetupState'
        BY <2>1, <2>2, Zenon DEF SetupState
    <2>4. QED
        BY <2>1, <2>2, <2>3, Zenon DEF SetupDone, CodesAreKept
<1>5. CASE ReloadOnboarding
    <2>1. /\ completing' \in Completion /\ completing'.status = "no"
          /\ setupStatus' \in SetupQuery /\ setupStatus'.required = setupStatus.required
          /\ setupStatus'.known = "unknown"
          /\ state' \in Store /\ "mfa" \notin state'.completed
          /\ safety' \in Safety /\ safety'.status = "idle" /\ totp' \in Totp
          /\ validating' = "" /\ mishaps' \in 0..MaxMishaps
          /\ path' \in {"home", "welcome", "connect"} /\ UNCHANGED codes
        <3>1. completing' \in Completion /\ completing'.status = "no" /\ totp' \in Totp
            BY <1>5 DEF ReloadOnboarding, Completion, NotCompleting, Totp, NoTotp
        <3>2. /\ setupStatus' \in SetupQuery /\ setupStatus'.required = setupStatus.required
              /\ setupStatus'.known = "unknown"
            BY <1>0, <1>5 DEF ReloadOnboarding, SetupQuery
        <3>3. state' \in Store /\ "mfa" \notin state'.completed
            BY <1>5, OnboardingAssumption DEF ReloadOnboarding, initialState, Store
        <3>4. safety' \in Safety /\ safety'.status = "idle"
            BY <1>5 DEF ReloadOnboarding, Safety, idleSafety
        <3>5. /\ validating' = "" /\ mishaps' \in 0..MaxMishaps
              /\ path' \in {"home", "welcome", "connect"} /\ UNCHANGED codes
            <4>1. mishaps' \in 0..MaxMishaps
                BY <1>5, CountersInRange DEF ReloadOnboarding
            <4>2. QED
                BY <1>5, <4>1 DEF ReloadOnboarding
        <3>6. QED
            BY <3>1, <3>2, <3>3, <3>4, <3>5
    <2>2. /\ finishing' = FALSE /\ lost' \in BOOLEAN /\ (~setupStatus.required => lost')
        BY <1>0, <1>5, Zenon DEF ReloadOnboarding
    <2>3. SetupState'
        <3>1. path' \in Stage \union {"welcome", "home"} /\ validating' \in {"", "good", "bad"}
            BY <2>1 DEF Stage
        <3>2. QED
            BY <1>0, <2>1, <2>2, <3>1, Zenon DEF SetupState
    <2>4. path' # "security" /\ safety'.status # "checking" /\ completing'.status # "accepted"
        BY <2>1
    <2>5. QED
        BY <2>1, <2>2, <2>3, <2>4, Zenon DEF SetupDone, CodesAreKept
<1>6. QED
    BY <1>1, <1>2, <1>3, <1>4, <1>5

LEMMA OnboardingStep == ASSUME OnboardingInv, [OnboardingNext]_onboardingVars PROVE OnboardingInv'
<1>1. CASE UNCHANGED onboardingVars
    BY <1>1 DEF onboardingVars, OnboardingInv, SetupState, SetupDone, CodesAreKept
<1>2. CASE OnboardingNext
    BY <1>2, WayThrough, PasswordCheckedKeepsInv, QueryAnswered, StepsOfAPage,
        CompletionKeepsInv DEF OnboardingNext
<1>3. QED
    BY <1>1, <1>2

\* The server is set up before any page acts as if it were, and the codes it has
\* answered with are in the store until the browser has gone home.
THEOREM OnboardingInvariance == OnboardingSpec => []OnboardingInv
BY OnboardingInitially, OnboardingStep, PTL DEF OnboardingSpec

\* The recovery codes of a new server are shown once, and stay with the pages of
\* the setup until the browser has gone home.
THEOREM SetupCodesStay == OnboardingSpec => []CodesStayAtHand
<1>1. OnboardingInv => CodesStayAtHand
    BY DEF OnboardingInv, CodesAreKept, CodesStayAtHand
<1>2. QED
    BY <1>1, OnboardingInvariance, PTL

LEMMA OnboardingTyped == OnboardingInv => OnboardingTypeOK
BY DEF OnboardingInv, SetupState, OnboardingTypeOK, SetupQuery, Store, Completion

-----------------------------------------------------------------------------
(* Enrollment: the invariant. *)

Challenge == [page : {"invited", "settings"}, of : Account \union {NoAccount}, live : BOOLEAN]
InvitedPage == [at : {"away", "form", "broken", "home"}, role : {"none", "viewer", "admin"},
                asking : BOOLEAN, username : Account \union {NoAccount}, enrollment : Nat,
                codes : BOOLEAN, submitting : BOOLEAN]
UserForm == [role : {"viewer", "admin"}, username : Account \union {NoAccount},
             enrollment : Nat, codes : BOOLEAN]
AccountRequest == [status : {"no", "sent", "made", "refused"}, of : Account \union {NoAccount},
                   role : {"none", "viewer", "admin"}, challenge : Nat, code : BOOLEAN,
                   heard : BOOLEAN]

\* The type of the two pages and of what they have asked for.
EnrollmentState ==
    /\ invited \in InvitedPage /\ newUser \in UserForm
    /\ accepting \in AccountRequest /\ creating \in AccountRequest
    /\ settings \in {"open", "changing", "revoked", "closed"}
    /\ invitation \in [role : {"none", "viewer", "admin"}, used : BOOLEAN]
    /\ challenges \in Seq(Challenge)
    /\ beginning \subseteq [page : {"invited", "settings"}, of : Account \union {NoAccount}]

\* A page waits for its request while it is open, and shows codes only when it
\* has nothing more to wait for.
PagesWait ==
    /\ accepting.status # "no" /\ accepting.heard => invited.at = "form"
    /\ invited.codes => accepting.status = "no"
    /\ creating.status # "no" /\ creating.heard => settings # "closed"
    /\ newUser.codes => creating.status = "no"

\* The server has made an administrator, and its answer is on the way.
AnswersCodes(request) == request.status = "made" /\ request.heard /\ request.role = "admin"

\* Codes that nobody has put aside are on the page, or in the answer to it.
CodesAreSomewhere ==
    /\ "invited" \in unsaved => invited.at = "form" /\ (invited.codes \/ AnswersCodes(accepting))
    /\ "settings" \in unsaved => settings # "closed" /\ (newUser.codes \/ AnswersCodes(creating))

EnrollmentInv == EnrollmentState /\ PagesWait /\ CodesAreSomewhere

-----------------------------------------------------------------------------
(* Enrollment: the invariant is inductive. *)

LEMMA EnrollmentInitially == EnrollmentInit => EnrollmentInv
<1> SUFFICES ASSUME EnrollmentInit PROVE EnrollmentInv
    OBVIOUS
<1>1. EnrollmentState
    <2>1. invited \in InvitedPage /\ newUser \in UserForm
        BY DEF EnrollmentInit, Elsewhere, NewPage, EmptyForm, InvitedPage, UserForm
    <2>2. accepting \in AccountRequest /\ creating \in AccountRequest
        BY DEF EnrollmentInit, NoRequest, AccountRequest
    <2>3. QED
        BY <2>1, <2>2 DEF EnrollmentInit, EnrollmentState
<1>2. PagesWait /\ CodesAreSomewhere
    BY DEF EnrollmentInit, PagesWait, CodesAreSomewhere, Elsewhere, NewPage, EmptyForm, NoRequest
<1>3. QED
    BY <1>1, <1>2 DEF EnrollmentInv

\* What the parts of the invariant say of a step that leaves both pages, their
\* requests and the codes alone.
LEMMA SameCodes ==
    ASSUME EnrollmentInv, EnrollmentState',
           invited'.at = invited.at, invited'.codes = invited.codes,
           newUser'.codes = newUser.codes, settings' # "closed" \/ settings' = settings,
           UNCHANGED <<accepting, creating, unsaved>>
    PROVE  EnrollmentInv'
BY DEF EnrollmentInv, PagesWait, CodesAreSomewhere, AnswersCodes

\* What serving a request does to the challenges and to the codes.
LEMMA Served ==
    ASSUME EnrollmentState, NEW page \in {"invited", "settings"}, NEW request \in AccountRequest,
           NEW allowed \in BOOLEAN, Serve(page, request, allowed)
    PROVE  /\ challenges' \in Seq(Challenge)
           /\ request.status = "sent"
           /\ Outcome(page, request, allowed) \in {"made", "refused"}
           /\ \/ unsaved' = unsaved
              \/ /\ unsaved' = unsaved \union {page}
                 /\ Outcome(page, request, allowed) = "made"
                 /\ request.role = "admin" /\ request.heard
<1>1. challenges' \in Seq(Challenge)
    <2>1. challenges' \in {challenges, [challenges EXCEPT ![request.challenge].live = FALSE]}
        BY Zenon DEF Serve
    <2>2. challenges \in Seq(Challenge)
        BY DEF EnrollmentState
    <2>3. [challenges EXCEPT ![request.challenge].live = FALSE] \in Seq(Challenge)
        <3> DEFINE i == request.challenge
                   spent == [challenges EXCEPT ![i].live = FALSE]
        <3>1. CASE i \in DOMAIN challenges
            <4>1. challenges[i] \in Challenge
                BY <2>2, <3>1
            <4>2. [challenges[i] EXCEPT !.live = FALSE] \in Challenge
                BY <4>1 DEF Challenge
            <4>3. spent = [challenges EXCEPT ![i] = [challenges[i] EXCEPT !.live = FALSE]]
                BY <2>2, <3>1
            <4>4. QED
                BY <2>2, <3>1, <4>2, <4>3
        <3>2. CASE i \notin DOMAIN challenges
            <4>1. spent = challenges
                BY <2>2, <3>2
            <4>2. QED
                BY <2>2, <4>1
        <3>3. QED
            BY <3>1, <3>2
    <2>4. QED
        BY <2>1, <2>2, <2>3, Zenon
<1>2. request.status = "sent" /\ Outcome(page, request, allowed) \in {"made", "refused"}
    BY Zenon DEF Serve, Outcome
<1>3. \/ unsaved' = unsaved
      \/ /\ unsaved' = unsaved \union {page}
         /\ Outcome(page, request, allowed) = "made"
         /\ request.role = "admin" /\ request.heard
    BY Zenon DEF Serve, Outcome
<1>4. QED
    BY <1>1, <1>2, <1>3

LEMMA ServingKeepsInv ==
    ASSUME EnrollmentInv, ServeInvitation \/ ServeUser
    PROVE  EnrollmentInv'
<1>0. /\ EnrollmentState /\ accepting \in AccountRequest /\ creating \in AccountRequest
      /\ invitation \in [role : {"none", "viewer", "admin"}, used : BOOLEAN]
    BY DEF EnrollmentInv, EnrollmentState
<1>1. CASE ServeInvitation
    <2> DEFINE allowed == ~invitation.used
    <2>1. /\ Serve("invited", accepting, allowed)
          /\ accepting' = [accepting EXCEPT !.status = Outcome("invited", accepting, allowed)]
          /\ invitation' = [invitation EXCEPT !.used = @ \/ accepting'.status = "made"]
          /\ UNCHANGED <<invited, settings, newUser, creating, beginning>>
        BY <1>1 DEF ServeInvitation, settingsVars
    <2>2. allowed \in BOOLEAN
        OBVIOUS
    <2> HIDE DEF allowed
    <2>3. /\ challenges' \in Seq(Challenge) /\ accepting.status = "sent"
          /\ Outcome("invited", accepting, allowed) \in {"made", "refused"}
          /\ \/ unsaved' = unsaved
             \/ /\ unsaved' = unsaved \union {"invited"}
                /\ Outcome("invited", accepting, allowed) = "made"
                /\ accepting.role = "admin" /\ accepting.heard
        BY <1>0, <2>1, <2>2, Served
    <2>4. /\ accepting' \in AccountRequest /\ accepting'.heard = accepting.heard
          /\ accepting'.role = accepting.role
          /\ accepting'.status = Outcome("invited", accepting, allowed)
        BY <1>0, <2>1, <2>3 DEF AccountRequest
    <2>5. invitation' \in [role : {"none", "viewer", "admin"}, used : BOOLEAN]
        BY <1>0, <2>1
    <2>6. EnrollmentState'
        BY <2>1, <2>3, <2>4, <2>5 DEF EnrollmentInv, EnrollmentState
    <2>7. PagesWait' /\ CodesAreSomewhere'
        BY <2>1, <2>3, <2>4 DEF EnrollmentInv, PagesWait, CodesAreSomewhere, AnswersCodes
    <2>8. QED
        BY <2>6, <2>7 DEF EnrollmentInv
<1>2. CASE ServeUser
    <2>1. /\ Serve("settings", creating, TRUE)
          /\ creating' = [creating EXCEPT !.status = Outcome("settings", creating, TRUE)]
          /\ UNCHANGED <<invitation, invited, accepting, settings, newUser, beginning>>
        BY <1>2 DEF ServeUser, invitedVars
    <2>2. /\ challenges' \in Seq(Challenge) /\ creating.status = "sent"
          /\ Outcome("settings", creating, TRUE) \in {"made", "refused"}
          /\ \/ unsaved' = unsaved
             \/ /\ unsaved' = unsaved \union {"settings"}
                /\ Outcome("settings", creating, TRUE) = "made"
                /\ creating.role = "admin" /\ creating.heard
        BY <1>0, <2>1, Served
    <2>3. /\ creating' \in AccountRequest /\ creating'.heard = creating.heard
          /\ creating'.role = creating.role
          /\ creating'.status = Outcome("settings", creating, TRUE)
        BY <1>0, <2>1, <2>2 DEF AccountRequest
    <2>4. EnrollmentState'
        BY <2>1, <2>2, <2>3 DEF EnrollmentInv, EnrollmentState
    <2>5. PagesWait' /\ CodesAreSomewhere'
        BY <2>1, <2>2, <2>3 DEF EnrollmentInv, PagesWait, CodesAreSomewhere, AnswersCodes
    <2>6. QED
        BY <2>4, <2>5 DEF EnrollmentInv
<1>3. QED
    BY <1>1, <1>2

\* Requests that nobody hears any more.
LEMMA UnheardRequest ==
    ASSUME NEW request \in AccountRequest
    PROVE  /\ Unheard(request) \in AccountRequest
           /\ Unheard(request).status = request.status
           /\ request.status # "no" => ~Unheard(request).heard
BY DEF Unheard, AccountRequest

LEMMA EmptyPages ==
    /\ NewPage \in InvitedPage /\ NewPage.at = "form" /\ ~NewPage.codes
    /\ Elsewhere("home") \in InvitedPage /\ ~Elsewhere("home").codes
    /\ EmptyForm \in UserForm /\ ~EmptyForm.codes
    /\ NoRequest \in AccountRequest /\ NoRequest.status = "no"
<1>1. NewPage \in InvitedPage /\ NewPage.at = "form" /\ ~NewPage.codes
    BY DEF NewPage, InvitedPage
<1>2. Elsewhere("home") \in InvitedPage /\ ~Elsewhere("home").codes
    BY DEF NewPage, Elsewhere, InvitedPage
<1>3. EmptyForm \in UserForm /\ ~EmptyForm.codes
    BY DEF EmptyForm, UserForm
<1>4. NoRequest \in AccountRequest /\ NoRequest.status = "no"
    BY DEF NoRequest, AccountRequest
<1>5. QED
    BY <1>1, <1>2, <1>3, <1>4

\* The steps of InvitationPage that send nothing and wait for nothing.
LEMMA FillingInvitation ==
    ASSUME EnrollmentInv,
           StatusAnswered \/ ConfigureInvited \/ \E u \in Account : TypeInvited(u)
    PROVE  EnrollmentInv'
<1>0. /\ invited \in InvitedPage
      /\ invitation \in [role : {"none", "viewer", "admin"}, used : BOOLEAN]
    BY DEF EnrollmentInv, EnrollmentState
<1>1. /\ UNCHANGED <<accepting, invitation, challenges, unsaved, settings, newUser, creating>>
      /\ invited' \in InvitedPage /\ invited'.at = invited.at /\ invited'.codes = invited.codes
    <2>1. CASE StatusAnswered
        BY <1>0, <2>1 DEF StatusAnswered, InvitedPage, serverVars, settingsVars
    <2>2. CASE ConfigureInvited
        BY <1>0, <2>2 DEF ConfigureInvited, InvitedPage, serverVars, settingsVars
    <2>3. CASE \E u \in Account : TypeInvited(u)
        BY <1>0, <2>3 DEF TypeInvited, InvitedPage, serverVars, settingsVars
    <2>4. QED
        BY <2>1, <2>2, <2>3
<1>2. beginning' \subseteq [page : {"invited", "settings"}, of : Account \union {NoAccount}]
    <2>1. beginning \subseteq [page : {"invited", "settings"}, of : Account \union {NoAccount}]
        BY DEF EnrollmentInv, EnrollmentState
    <2>2. CASE ConfigureInvited
        <3>1. beginning' = beginning \union {[page |-> "invited", of |-> invited.username]}
            BY <2>2 DEF ConfigureInvited, Ask
        <3>2. QED
            BY <1>0, <2>1, <3>1 DEF InvitedPage
    <2>3. CASE StatusAnswered \/ \E u \in Account : TypeInvited(u)
        BY <2>1, <2>3 DEF StatusAnswered, TypeInvited
    <2>4. QED
        BY <2>2, <2>3
<1>3. EnrollmentState'
    BY <1>1, <1>2 DEF EnrollmentInv, EnrollmentState
<1>4. QED
    BY <1>1, <1>3, SameCodes

\* InvitationPage opened, sent, answered, left.
LEMMA InvitationKeepsInv ==
    ASSUME EnrollmentInv,
           \/ OpenInvitation \/ InvitationAccepted \/ InvitationRefused \/ FinishInvited
           \/ ReloadInvited \/ \E code \in BOOLEAN : AcceptInvited(code)
    PROVE  EnrollmentInv'
<1>0. invited \in InvitedPage /\ accepting \in AccountRequest
    BY DEF EnrollmentInv, EnrollmentState
<1> USE DEF serverVars, settingsVars
<1>1. CASE OpenInvitation
    <2>1. /\ invited' = NewPage /\ invited.at = "away"
          /\ UNCHANGED <<accepting, invitation, challenges, unsaved, settings, newUser, creating,
                         beginning>>
        BY <1>1 DEF OpenInvitation
    <2>2. EnrollmentState'
        BY <2>1, EmptyPages DEF EnrollmentInv, EnrollmentState
    <2>3. PagesWait' /\ CodesAreSomewhere'
        BY <2>1, EmptyPages DEF EnrollmentInv, PagesWait, CodesAreSomewhere, AnswersCodes
    <2>4. QED
        BY <2>2, <2>3 DEF EnrollmentInv
<1>2. CASE InvitationAccepted
    <2>1. /\ accepting.status = "made" /\ accepting.heard /\ accepting' = NoRequest
          /\ UNCHANGED <<invitation, challenges, unsaved, settings, newUser, creating, beginning>>
        BY <1>2 DEF InvitationAccepted
    <2>2. /\ invited' \in InvitedPage
          /\ accepting.role = "admin" => invited'.codes /\ invited'.at = invited.at
          /\ accepting.role # "admin" => invited'.codes = invited.codes
        BY <1>0, <1>2 DEF InvitationAccepted, InvitedPage, recoveryCodes
    <2>3. EnrollmentState'
        BY <2>1, <2>2, EmptyPages DEF EnrollmentInv, EnrollmentState
    <2>4. PagesWait' /\ CodesAreSomewhere'
        BY <2>1, <2>2, EmptyPages DEF EnrollmentInv, PagesWait, CodesAreSomewhere, AnswersCodes
    <2>5. QED
        BY <2>3, <2>4 DEF EnrollmentInv
<1>3. CASE InvitationRefused
    <2>1. /\ accepting.status = "refused" /\ accepting.heard /\ accepting' = NoRequest
          /\ UNCHANGED <<invitation, challenges, unsaved, settings, newUser, creating, beginning>>
        BY <1>3 DEF InvitationRefused
    <2>2. /\ invited' \in InvitedPage /\ invited'.codes = invited.codes
          /\ invited'.at = invited.at
        BY <1>0, <1>3 DEF InvitationRefused, InvitedPage
    <2>3. EnrollmentState'
        BY <2>1, <2>2, EmptyPages DEF EnrollmentInv, EnrollmentState
    <2>4. PagesWait' /\ CodesAreSomewhere'
        BY <2>1, <2>2, EmptyPages DEF EnrollmentInv, PagesWait, CodesAreSomewhere, AnswersCodes
    <2>5. QED
        BY <2>3, <2>4 DEF EnrollmentInv
<1>4. CASE FinishInvited
    <2>1. /\ invited' = Elsewhere("home") /\ unsaved' = unsaved \ {"invited"} /\ invited.codes
          /\ UNCHANGED <<accepting, invitation, challenges, settings, newUser, creating, beginning>>
        BY <1>4 DEF FinishInvited
    <2>2. EnrollmentState'
        BY <2>1, EmptyPages DEF EnrollmentInv, EnrollmentState
    <2>3. PagesWait' /\ CodesAreSomewhere'
        BY <2>1, EmptyPages DEF EnrollmentInv, PagesWait, CodesAreSomewhere, AnswersCodes
    <2>4. QED
        BY <2>2, <2>3 DEF EnrollmentInv
<1>5. CASE ReloadInvited
    <2>1. /\ invited' = NewPage /\ accepting' = Unheard(accepting)
          /\ beginning' \subseteq beginning /\ unsaved' = unsaved \ {"invited"}
          /\ UNCHANGED <<invitation, challenges, settings, newUser, creating>>
        BY <1>5 DEF ReloadInvited, Without
    <2>2. EnrollmentState'
        BY <1>0, <2>1, EmptyPages, UnheardRequest DEF EnrollmentInv, EnrollmentState
    <2>3. PagesWait' /\ CodesAreSomewhere'
        BY <1>0, <2>1, EmptyPages, UnheardRequest
            DEF EnrollmentInv, PagesWait, CodesAreSomewhere, AnswersCodes
    <2>4. QED
        BY <2>2, <2>3 DEF EnrollmentInv
<1>6. CASE \E code \in BOOLEAN : AcceptInvited(code)
    <2>1. PICK code \in BOOLEAN : AcceptInvited(code)
        BY <1>6
    <2>2. /\ invited.at = "form" /\ ~invited.codes /\ accepting.status = "no"
          /\ invited' = [invited EXCEPT !.submitting = TRUE]
          /\ accepting' = [status |-> "sent", of |-> invited.username, role |-> invited.role,
                           challenge |-> invited.enrollment, code |-> code, heard |-> TRUE]
          /\ UNCHANGED <<invitation, challenges, unsaved, settings, newUser, creating, beginning>>
        BY <2>1 DEF AcceptInvited, Submittable
    <2>3. /\ invited' \in InvitedPage /\ invited'.at = invited.at
          /\ invited'.codes = invited.codes
        BY <1>0, <2>2 DEF InvitedPage
    <2>4. accepting' \in AccountRequest
        BY <1>0, <2>2 DEF InvitedPage, AccountRequest
    <2>5. EnrollmentState'
        BY <2>2, <2>3, <2>4 DEF EnrollmentInv, EnrollmentState
    <2>6. PagesWait' /\ CodesAreSomewhere'
        BY <2>2, <2>3 DEF EnrollmentInv, PagesWait, CodesAreSomewhere, AnswersCodes
    <2>7. QED
        BY <2>5, <2>6 DEF EnrollmentInv
<1>7. QED
    BY <1>1, <1>2, <1>3, <1>4, <1>5, <1>6

\* Answers nobody waits for, and the challenges, which come to a page at any time.
LEMMA AnswersKeepInv ==
    ASSUME EnrollmentInv,
           Dismiss \/ \E request \in beginning : TotpAnswered(request) \/ TotpRefused(request)
    PROVE  EnrollmentInv'
<1>0. /\ invited \in InvitedPage /\ newUser \in UserForm /\ challenges \in Seq(Challenge)
      /\ beginning \subseteq [page : {"invited", "settings"}, of : Account \union {NoAccount}]
    BY DEF EnrollmentInv, EnrollmentState
<1>1. CASE Dismiss
    <2>1. CASE ~accepting.heard /\ accepting' = NoRequest
        <3>1. UNCHANGED <<invited, invitation, challenges, unsaved, settings, newUser, creating,
                          beginning>>
            BY <1>1, <2>1, EmptyPages DEF Dismiss, serverVars, settingsVars, invitedVars, NoRequest
        <3>2. EnrollmentState'
            BY <2>1, <3>1, EmptyPages DEF EnrollmentInv, EnrollmentState
        <3>3. PagesWait' /\ CodesAreSomewhere'
            BY <2>1, <3>1, EmptyPages DEF EnrollmentInv, PagesWait, CodesAreSomewhere, AnswersCodes
        <3>4. QED
            BY <3>2, <3>3 DEF EnrollmentInv
    <2>2. CASE ~creating.heard /\ creating' = NoRequest
        <3>1. UNCHANGED <<invited, accepting, invitation, challenges, unsaved, settings, newUser,
                          beginning>>
            BY <1>1, <2>2, EmptyPages DEF Dismiss, serverVars, settingsVars, invitedVars, NoRequest
        <3>2. EnrollmentState'
            BY <2>2, <3>1, EmptyPages DEF EnrollmentInv, EnrollmentState
        <3>3. PagesWait' /\ CodesAreSomewhere'
            BY <2>2, <3>1, EmptyPages DEF EnrollmentInv, PagesWait, CodesAreSomewhere, AnswersCodes
        <3>4. QED
            BY <3>2, <3>3 DEF EnrollmentInv
    <2>3. QED
        BY <1>1, <2>1, <2>2 DEF Dismiss
<1>2. CASE \E request \in beginning : TotpAnswered(request)
    <2>1. PICK request \in beginning : TotpAnswered(request)
        BY <1>2
    <2>2. /\ beginning' = beginning \ {request}
          /\ challenges' = Append(challenges,
                                  [page |-> request.page, of |-> request.of, live |-> TRUE])
          /\ UNCHANGED <<invitation, unsaved, accepting, settings, creating>>
        BY <2>1 DEF TotpAnswered
    <2>3. challenges' \in Seq(Challenge) /\ Len(challenges') \in Nat
        <3>1. [page |-> request.page, of |-> request.of, live |-> TRUE] \in Challenge
            BY <1>0 DEF Challenge
        <3>2. QED
            BY <1>0, <2>2, <3>1
    <2>4. /\ invited' \in InvitedPage /\ invited'.at = invited.at
          /\ invited'.codes = invited.codes
        BY <1>0, <2>1, <2>3 DEF TotpAnswered, InvitedPage
    <2>5. newUser' \in UserForm /\ newUser'.codes = newUser.codes
        BY <1>0, <2>1, <2>3 DEF TotpAnswered, UserForm
    <2>6. EnrollmentState'
        BY <1>0, <2>2, <2>3, <2>4, <2>5 DEF EnrollmentInv, EnrollmentState
    <2>7. QED
        BY <2>2, <2>4, <2>5, <2>6, SameCodes
<1>3. CASE \E request \in beginning : TotpRefused(request)
    <2>1. PICK request \in beginning : TotpRefused(request)
        BY <1>3
    <2>2. /\ beginning' = beginning \ {request}
          /\ UNCHANGED <<challenges, invitation, unsaved, accepting, settings, creating, newUser>>
        BY <2>1 DEF TotpRefused, serverVars, settingsVars
    <2>3. /\ invited' \in InvitedPage /\ invited'.at = invited.at
          /\ invited'.codes = invited.codes
        BY <1>0, <2>1 DEF TotpRefused, InvitedPage
    <2>4. EnrollmentState'
        BY <1>0, <2>2, <2>3 DEF EnrollmentInv, EnrollmentState
    <2>5. QED
        BY <2>2, <2>3, <2>4, SameCodes
<1>4. QED
    BY <1>1, <1>2, <1>3

\* NewUserSection, from its form to the codes of another user.
LEMMA NewUserKeepsInv ==
    ASSUME EnrollmentInv,
           \/ \E role \in {"viewer", "admin"} : ChooseRole(role)
           \/ \E u \in Account : TypeUser(u)
           \/ ConfigureUser \/ UserCreated \/ UserRefused \/ CreateAnother
           \/ \E code \in BOOLEAN : CreateUser(code)
    PROVE  EnrollmentInv'
<1>0. /\ newUser \in UserForm /\ creating \in AccountRequest
      /\ beginning \subseteq [page : {"invited", "settings"}, of : Account \union {NoAccount}]
    BY DEF EnrollmentInv, EnrollmentState
<1> USE DEF serverVars, invitedVars
<1>1. CASE \/ \E role \in {"viewer", "admin"} : ChooseRole(role)
           \/ \E u \in Account : TypeUser(u)
    <2>1. /\ newUser' \in UserForm /\ newUser'.codes = newUser.codes
          /\ UNCHANGED <<challenges, invitation, unsaved, invited, accepting, settings, creating,
                         beginning>>
        BY <1>0, <1>1 DEF ChooseRole, TypeUser, UserForm
    <2>2. EnrollmentState'
        BY <2>1 DEF EnrollmentInv, EnrollmentState
    <2>3. QED
        BY <2>1, <2>2, SameCodes
<1>2. CASE ConfigureUser
    <2>1. /\ beginning' = beginning \union {[page |-> "settings", of |-> newUser.username]}
          /\ UNCHANGED <<challenges, invitation, unsaved, invited, accepting, settings, newUser,
                         creating>>
        BY <1>2 DEF ConfigureUser, Ask, settingsVars
    <2>2. beginning' \subseteq [page : {"invited", "settings"}, of : Account \union {NoAccount}]
        BY <1>0, <2>1 DEF UserForm
    <2>3. EnrollmentState'
        BY <2>1, <2>2 DEF EnrollmentInv, EnrollmentState
    <2>4. QED
        BY <2>1, <2>3, SameCodes
<1>3. CASE UserCreated
    <2>1. /\ creating.status = "made" /\ creating.heard /\ creating' = NoRequest
          /\ UNCHANGED <<challenges, invitation, unsaved, invited, accepting, settings, beginning>>
        BY <1>3 DEF UserCreated
    <2>2. /\ newUser' \in UserForm
          /\ creating.role = "admin" => newUser'.codes
          /\ creating.role # "admin" => newUser'.codes = newUser.codes
        BY <1>0, <1>3 DEF UserCreated, UserForm, recoveryCodes
    <2>3. EnrollmentState'
        BY <2>1, <2>2, EmptyPages DEF EnrollmentInv, EnrollmentState
    <2>4. PagesWait' /\ CodesAreSomewhere'
        BY <2>1, <2>2, EmptyPages DEF EnrollmentInv, PagesWait, CodesAreSomewhere, AnswersCodes
    <2>5. QED
        BY <2>3, <2>4 DEF EnrollmentInv
<1>4. CASE UserRefused
    <2>1. /\ creating.status = "refused" /\ creating.heard /\ creating' = NoRequest
          /\ UNCHANGED <<challenges, invitation, unsaved, invited, accepting, settings, newUser,
                         beginning>>
        BY <1>4 DEF UserRefused
    <2>2. EnrollmentState'
        BY <2>1, EmptyPages DEF EnrollmentInv, EnrollmentState
    <2>3. PagesWait' /\ CodesAreSomewhere'
        BY <2>1, EmptyPages DEF EnrollmentInv, PagesWait, CodesAreSomewhere, AnswersCodes
    <2>4. QED
        BY <2>2, <2>3 DEF EnrollmentInv
<1>5. CASE CreateAnother
    <2>1. /\ newUser.codes /\ newUser' = EmptyForm /\ unsaved' = unsaved \ {"settings"}
          /\ UNCHANGED <<challenges, invitation, invited, accepting, settings, creating, beginning>>
        BY <1>5 DEF CreateAnother
    <2>2. EnrollmentState'
        BY <2>1, EmptyPages DEF EnrollmentInv, EnrollmentState
    <2>3. PagesWait' /\ CodesAreSomewhere'
        BY <2>1, EmptyPages DEF EnrollmentInv, PagesWait, CodesAreSomewhere, AnswersCodes
    <2>4. QED
        BY <2>2, <2>3 DEF EnrollmentInv
<1>6. CASE \E code \in BOOLEAN : CreateUser(code)
    <2>1. PICK code \in BOOLEAN : CreateUser(code)
        BY <1>6
    <2>2. /\ settings # "closed" /\ ~newUser.codes /\ creating.status = "no"
          /\ creating' = [status |-> IF Signed THEN "sent" ELSE "refused", of |-> newUser.username,
                          role |-> newUser.role, challenge |-> newUser.enrollment, code |-> code,
                          heard |-> TRUE]
          /\ UNCHANGED <<challenges, invitation, unsaved, invited, accepting, settings, newUser,
                         beginning>>
        BY <2>1 DEF CreateUser, Editable
    <2>3. creating' \in AccountRequest
        BY <1>0, <2>2 DEF AccountRequest, UserForm
    <2>4. EnrollmentState'
        BY <2>2, <2>3 DEF EnrollmentInv, EnrollmentState
    <2>5. PagesWait' /\ CodesAreSomewhere'
        BY <2>2 DEF EnrollmentInv, PagesWait, CodesAreSomewhere, AnswersCodes
    <2>6. QED
        BY <2>4, <2>5 DEF EnrollmentInv
<1>7. QED
    BY <1>1, <1>2, <1>3, <1>4, <1>5, <1>6

\* The other sections of the settings.
LEMMA SectionsKeepInv ==
    ASSUME EnrollmentInv,
           \/ \E role \in {"viewer", "admin"} :
                 CreateInvitation(role) \/ \E u \in Account : ChangeRole(u, role)
           \/ \E u \in Account : AskDelete(u)
           \/ UsersAnswered \/ confirmDelete \/ ChangePassword \/ OpenSettings
           \/ TypeName(NoDeletion) \/ TypeName([deletion EXCEPT !.typed = TRUE])
    PROVE  EnrollmentInv'
<1> USE DEF serverVars, invitedVars
<1>1. CASE \E role \in {"viewer", "admin"} : CreateInvitation(role)
    <2>1. PICK role \in {"viewer", "admin"} : CreateInvitation(role)
        BY <1>1
    <2>2. /\ invitation' = [role |-> role, used |-> FALSE]
          /\ UNCHANGED <<challenges, unsaved, invited, accepting, settings, newUser, creating,
                         beginning>>
        BY <2>1 DEF CreateInvitation
    <2>3. EnrollmentState'
        BY <2>2 DEF EnrollmentInv, EnrollmentState
    <2>4. QED
        BY <2>2, <2>3, SameCodes
<1>2. CASE \/ \E role \in {"viewer", "admin"}, u \in Account : ChangeRole(u, role)
           \/ \E u \in Account : AskDelete(u)
           \/ UsersAnswered \/ confirmDelete
           \/ TypeName(NoDeletion) \/ TypeName([deletion EXCEPT !.typed = TRUE])
    <2>1. UNCHANGED <<challenges, invitation, unsaved, invited, accepting, settings, newUser,
                      creating, beginning>>
        BY <1>2 DEF ChangeRole, AskDelete, UsersAnswered, confirmDelete, TypeName
    <2>2. EnrollmentState'
        BY <2>1 DEF EnrollmentInv, EnrollmentState
    <2>3. QED
        BY <2>1, <2>2, SameCodes
<1>3. CASE ChangePassword \/ OpenSettings
    <2>1. /\ settings' \in {"open", "changing"}
          /\ UNCHANGED <<challenges, invitation, unsaved, invited, accepting, newUser, creating,
                         beginning>>
        BY <1>3 DEF ChangePassword, OpenSettings
    <2>2. EnrollmentState'
        BY <2>1 DEF EnrollmentInv, EnrollmentState
    <2>3. QED
        BY <2>1, <2>2, SameCodes
<1>4. QED
    BY <1>1, <1>2, <1>3

\* Sessions revoked under a request, and the settings left.
LEMMA LeavingKeepsInv ==
    ASSUME EnrollmentInv, RevokeSessions \/ LeaveSettings
    PROVE  EnrollmentInv'
<1>0. creating \in AccountRequest
    BY DEF EnrollmentInv, EnrollmentState
<1> USE DEF serverVars, invitedVars
<1>1. CASE RevokeSessions
    <2>1. /\ settings' = "revoked"
          /\ UNCHANGED <<challenges, invitation, unsaved, invited, accepting, newUser, beginning>>
        BY <1>1 DEF RevokeSessions
    <2>2. /\ creating' \in AccountRequest /\ creating'.heard = creating.heard
          /\ creating'.role = creating.role
          /\ creating'.status = "no" <=> creating.status = "no"
          /\ creating.status = "made" => creating'.status = "made"
        BY <1>0, <1>1 DEF RevokeSessions, AccountRequest
    <2>3. EnrollmentState'
        BY <2>1, <2>2 DEF EnrollmentInv, EnrollmentState
    <2>4. PagesWait' /\ CodesAreSomewhere'
        BY <2>1, <2>2 DEF EnrollmentInv, PagesWait, CodesAreSomewhere, AnswersCodes
    <2>5. QED
        BY <2>3, <2>4 DEF EnrollmentInv
<1>2. CASE LeaveSettings
    <2>1. /\ settings' = "closed" /\ newUser' = EmptyForm /\ creating' = Unheard(creating)
          /\ unsaved' = unsaved \ {"settings"} /\ beginning' \subseteq beginning
          /\ UNCHANGED <<challenges, invitation, invited, accepting>>
        BY <1>2 DEF LeaveSettings, Without
    <2>2. EnrollmentState'
        BY <1>0, <2>1, EmptyPages, UnheardRequest DEF EnrollmentInv, EnrollmentState
    <2>3. PagesWait' /\ CodesAreSomewhere'
        BY <1>0, <2>1, EmptyPages, UnheardRequest
            DEF EnrollmentInv, PagesWait, CodesAreSomewhere, AnswersCodes
    <2>4. QED
        BY <2>2, <2>3 DEF EnrollmentInv
<1>3. QED
    BY <1>1, <1>2

LEMMA EnrollmentStep == ASSUME EnrollmentInv, [EnrollmentNext]_enrollmentVars PROVE EnrollmentInv'
<1>1. CASE UNCHANGED enrollmentVars
    <2>1. UNCHANGED <<challenges, invitation, unsaved, invited, accepting, settings, newUser,
                      creating, beginning>>
        BY <1>1 DEF enrollmentVars, serverVars, invitedVars, settingsVars
    <2>2. EnrollmentState'
        BY <2>1 DEF EnrollmentInv, EnrollmentState
    <2>3. QED
        BY <2>1, <2>2, SameCodes
<1>2. CASE EnrollmentNext
    BY <1>2, ServingKeepsInv, FillingInvitation, InvitationKeepsInv, AnswersKeepInv,
        NewUserKeepsInv, SectionsKeepInv, LeavingKeepsInv DEF EnrollmentNext
<1>3. QED
    BY <1>1, <1>2

\* Whatever the order of challenges, answers, reloads and revoked sessions: a
\* page waits for its request alone, and the codes are on it or on their way.
THEOREM EnrollmentInvariance == EnrollmentSpec => []EnrollmentInv
BY EnrollmentInitially, EnrollmentStep, PTL DEF EnrollmentSpec

\* The recovery codes of an administrator made from the browser stay on the page
\* that asked for the account until they are put aside or the page is left.
THEOREM EnrolledCodesStay == EnrollmentSpec => []EnrolledCodesStayAtHand
<1>1. EnrollmentInv => EnrolledCodesStayAtHand
    BY DEF EnrollmentInv, CodesAreSomewhere, AnswersCodes, EnrolledCodesStayAtHand
<1>2. QED
    BY <1>1, EnrollmentInvariance, PTL

-----------------------------------------------------------------------------
(* Enrollment: the types. *)

\* The accounts, on the server and as the settings know them, what the settings
\* ask about one of them, and the pages whose codes nobody has put aside.
AccountsTyped ==
    /\ accounts \in [Account -> AccountState]
    /\ users \in [known : [Account -> AccountState], fetching : BOOLEAN]
    /\ deletion \in [target : Account \union {NoAccount}, typed : BOOLEAN]
    /\ unsaved \subseteq {"invited", "settings"} /\ slips \in 0..MaxSlips

\* A challenge is asked for while there is room for it beside those there are
\* and those asked for before; an enrollment is one of those that came.
ChallengesFit ==
    /\ IsFiniteSet(beginning) /\ Len(challenges) + Cardinality(beginning) <= MaxChallenges
    /\ invited.enrollment <= Len(challenges) /\ newUser.enrollment <= Len(challenges)

EnrollmentTypes == EnrollmentInv /\ AccountsTyped /\ ChallengesFit

LEMMA EnrollmentTypesInitially == EnrollmentInit => EnrollmentTypes
<1> SUFFICES ASSUME EnrollmentInit PROVE EnrollmentTypes
    OBVIOUS
<1>1. AccountsTyped
    BY EnrollmentAssumption DEF EnrollmentInit, AccountsTyped, AccountState, NoDeletion
<1>2. IsFiniteSet({}) /\ Cardinality({}) = 0 /\ MaxChallenges \in Nat
    BY FS_EmptySet, EnrollmentAssumption
<1>3. /\ beginning = {} /\ challenges = << >>
      /\ invited.enrollment = 0 /\ newUser.enrollment = 0
    BY DEF EnrollmentInit, Elsewhere, NewPage, EmptyForm
<1>4. ChallengesFit
    BY <1>2, <1>3 DEF ChallengesFit
<1>5. QED
    BY <1>1, <1>4, EnrollmentInitially DEF EnrollmentTypes

LEMMA SlipIsCounted ==
    ASSUME AccountsTyped, Slip \/ UNCHANGED slips
    PROVE  slips' \in 0..MaxSlips
<1>1. slips \in 0..MaxSlips /\ MaxSlips \in Nat
    BY EnrollmentAssumption DEF AccountsTyped
<1>2. QED
    BY <1>1 DEF Slip

\* Serving a request makes at most one account, of its role, and spends at most
\* one challenge.
LEMMA ServedTypes ==
    ASSUME EnrollmentState, AccountsTyped,
           NEW page \in {"invited", "settings"}, NEW request \in AccountRequest,
           NEW allowed \in BOOLEAN, Serve(page, request, allowed)
    PROVE  /\ accounts' \in [Account -> AccountState]
           /\ unsaved' \subseteq {"invited", "settings"}
           /\ Len(challenges') = Len(challenges)
<1>1. accounts' \in {accounts, [accounts EXCEPT ![request.of] = request.role]}
    BY Zenon DEF Serve
<1>2. accounts \in [Account -> AccountState] /\ request.role \in AccountState
    BY DEF AccountsTyped, AccountRequest, AccountState
<1>3. accounts' \in [Account -> AccountState]
    BY <1>1, <1>2
<1>4. unsaved' \in {unsaved, unsaved \union {page}}
    BY Zenon DEF Serve
<1>5. unsaved' \subseteq {"invited", "settings"}
    BY <1>4 DEF AccountsTyped
<1>6. challenges' \in {challenges, [challenges EXCEPT ![request.challenge].live = FALSE]}
    BY Zenon DEF Serve
<1>7. challenges \in Seq(Challenge) /\ challenges' \in Seq(Challenge)
    BY Served DEF EnrollmentState
<1>8. DOMAIN challenges' = DOMAIN challenges
    BY <1>6
<1>9. Len(challenges') = Len(challenges)
    BY <1>7, <1>8
<1>10. QED
    BY <1>3, <1>5, <1>9

LEMMA AccountsStayTyped ==
    ASSUME EnrollmentInv, AccountsTyped, EnrollmentNext
    PROVE  AccountsTyped'
<1>0. /\ EnrollmentState /\ accepting \in AccountRequest /\ creating \in AccountRequest
      /\ accounts \in [Account -> AccountState]
      /\ users \in [known : [Account -> AccountState], fetching : BOOLEAN]
      /\ deletion \in [target : Account \union {NoAccount}, typed : BOOLEAN]
      /\ unsaved \subseteq {"invited", "settings"} /\ slips \in 0..MaxSlips
      /\ invitation \in [role : {"none", "viewer", "admin"}, used : BOOLEAN]
    BY DEF EnrollmentInv, EnrollmentState, AccountsTyped
<1> USE DEF serverVars, invitedVars, settingsVars, sectionVars
<1>1. CASE ServeInvitation
    <2>1. /\ Serve("invited", accepting, ~invitation.used)
          /\ UNCHANGED <<users, deletion, slips>>
        BY <1>1 DEF ServeInvitation
    <2>2. accounts' \in [Account -> AccountState] /\ unsaved' \subseteq {"invited", "settings"}
        BY <1>0, <2>1, ServedTypes
    <2>3. QED
        BY <1>0, <2>1, <2>2 DEF AccountsTyped
<1>2. CASE ServeUser
    <2>1. Serve("settings", creating, TRUE) /\ UNCHANGED <<users, deletion, slips>>
        BY <1>2 DEF ServeUser
    <2>2. accounts' \in [Account -> AccountState] /\ unsaved' \subseteq {"invited", "settings"}
        BY <1>0, <2>1, ServedTypes
    <2>3. QED
        BY <1>0, <2>1, <2>2 DEF AccountsTyped
<1>3. CASE \/ OpenInvitation \/ StatusAnswered \/ ConfigureInvited
           \/ InvitationAccepted \/ InvitationRefused \/ Dismiss
           \/ ConfigureUser \/ UserCreated \/ UserRefused \/ RevokeSessions
           \/ \E request \in beginning : TotpAnswered(request) \/ TotpRefused(request)
           \/ \E role \in {"viewer", "admin"} : CreateInvitation(role)
    <2>1. UNCHANGED <<accounts, users, deletion, unsaved, slips>>
        BY <1>3 DEF OpenInvitation, StatusAnswered, ConfigureInvited, InvitationAccepted,
                    InvitationRefused, Dismiss, ConfigureUser, UserCreated, UserRefused,
                    RevokeSessions, TotpAnswered, TotpRefused, CreateInvitation
    <2>2. QED
        BY <1>0, <2>1 DEF AccountsTyped
<1>4. CASE \/ \E u \in Account : TypeInvited(u) \/ TypeUser(u)
           \/ \E code \in BOOLEAN : AcceptInvited(code) \/ CreateUser(code)
           \/ \E role \in {"viewer", "admin"} : ChooseRole(role)
           \/ ChangePassword
    <2>1. UNCHANGED <<accounts, users, deletion, unsaved>> /\ (Slip \/ UNCHANGED slips)
        BY <1>4 DEF TypeInvited, TypeUser, AcceptInvited, CreateUser, ChooseRole,
                    ChangePassword, Enter, Changed
    <2>2. QED
        BY <1>0, <2>1, SlipIsCounted DEF AccountsTyped
<1>5. CASE FinishInvited \/ ReloadInvited \/ CreateAnother \/ LeaveSettings \/ OpenSettings
    <2>1. /\ UNCHANGED accounts /\ unsaved' \subseteq unsaved /\ (Slip \/ UNCHANGED slips)
          /\ deletion' \in {deletion, NoDeletion}
          /\ \E b \in BOOLEAN : users' = [users EXCEPT !.fetching = b]
        <3>1. users = [users EXCEPT !.fetching = users.fetching]
            BY <1>0
        <3>2. QED
            BY <1>0, <1>5, <3>1
               DEF FinishInvited, ReloadInvited, CreateAnother, LeaveSettings, OpenSettings
    <2>2. NoDeletion \in [target : Account \union {NoAccount}, typed : BOOLEAN]
        BY DEF NoDeletion
    <2>3. QED
        BY <1>0, <2>1, <2>2, SlipIsCounted DEF AccountsTyped
<1>6. CASE UsersAnswered
    BY <1>0, <1>6 DEF UsersAnswered, AccountsTyped
<1>7. CASE \E role \in {"viewer", "admin"}, u \in Account : ChangeRole(u, role)
    <2>1. PICK role \in {"viewer", "admin"}, u \in Account : ChangeRole(u, role)
        BY <1>7
    <2>2. /\ accounts' = [accounts EXCEPT ![u] = Promoted(u, role)]
          /\ \E b \in BOOLEAN : users' = [users EXCEPT !.fetching = b]
          /\ UNCHANGED <<deletion, unsaved>> /\ (Slip \/ UNCHANGED slips)
        BY <1>0, <2>1 DEF ChangeRole, Changed
    <2>3. Promoted(u, role) \in AccountState
        <3>1. accounts[u] \in AccountState
            BY <1>0
        <3>2. QED
            BY <3>1 DEF Promoted, AccountState
    <2>4. QED
        BY <1>0, <2>2, <2>3, SlipIsCounted DEF AccountsTyped
<1>8. CASE \/ \E u \in Account : AskDelete(u)
           \/ TypeName(NoDeletion) \/ TypeName([deletion EXCEPT !.typed = TRUE])
    <2>1. UNCHANGED <<accounts, users, unsaved, slips>>
        BY <1>8 DEF AskDelete, TypeName
    <2>2. deletion' \in [target : Account \union {NoAccount}, typed : BOOLEAN]
        <3>1. /\ NoDeletion \in [target : Account \union {NoAccount}, typed : BOOLEAN]
              /\ [deletion EXCEPT !.typed = TRUE]
                    \in [target : Account \union {NoAccount}, typed : BOOLEAN]
            BY <1>0 DEF NoDeletion
        <3>2. CASE \E u \in Account : AskDelete(u)
            BY <3>2 DEF AskDelete
        <3>3. CASE TypeName(NoDeletion) \/ TypeName([deletion EXCEPT !.typed = TRUE])
            BY <3>1, <3>3 DEF TypeName
        <3>4. QED
            BY <1>8, <3>2, <3>3
    <2>3. QED
        BY <1>0, <2>1, <2>2 DEF AccountsTyped
<1>9. CASE confirmDelete
    <2>1. /\ accounts' = [accounts EXCEPT ![deletion.target] = "none"]
          /\ deletion' \in {deletion, NoDeletion}
          /\ users' \in {users, [users EXCEPT !.fetching = TRUE]}
          /\ UNCHANGED unsaved /\ Slip
        BY <1>9 DEF confirmDelete
    <2>2. "none" \in AccountState
          /\ NoDeletion \in [target : Account \union {NoAccount}, typed : BOOLEAN]
        BY DEF AccountState, NoDeletion
    <2>3. QED
        BY <1>0, <2>1, <2>2, SlipIsCounted DEF AccountsTyped
<1>10. QED
    BY <1>1, <1>2, <1>3, <1>4, <1>5, <1>6, <1>7, <1>8, <1>9 DEF EnrollmentNext

\* What a step leaves of the challenges and of those asked for fits as before.
LEMMA FewerFit ==
    ASSUME EnrollmentState, ChallengesFit, Len(challenges') = Len(challenges),
           beginning' \subseteq beginning,
           invited'.enrollment \in {0, invited.enrollment},
           newUser'.enrollment \in {0, newUser.enrollment}
    PROVE  ChallengesFit'
<1>1. PICK n \in Nat : n = Len(challenges)
    BY DEF EnrollmentState
<1>2. PICK c \in Nat : c = Cardinality(beginning) /\ n + c <= MaxChallenges
    BY <1>1, FS_CardinalityType DEF ChallengesFit
<1>3. IsFiniteSet(beginning')
    BY FS_Subset DEF ChallengesFit
<1>4. PICK d \in Nat : d = Cardinality(beginning') /\ d <= c
    BY <1>2, <1>3, FS_Subset, FS_CardinalityType DEF ChallengesFit
<1>5. n + d <= MaxChallenges
    BY ONLY <1>2, <1>4, n \in Nat, c \in Nat, d \in Nat, EnrollmentAssumption
<1>6. invited'.enrollment <= n /\ newUser'.enrollment <= n
    BY <1>1 DEF ChallengesFit
<1>7. Len(challenges') + Cardinality(beginning') <= MaxChallenges
    BY ONLY <1>1, <1>4, <1>5, Len(challenges') = Len(challenges)
<1>8. QED
    BY <1>1, <1>3, <1>6, <1>7 DEF ChallengesFit

\* One more is asked for.
LEMMA AskedFits ==
    ASSUME EnrollmentState, ChallengesFit, NEW request, Ask(request),
           UNCHANGED challenges, invited'.enrollment = invited.enrollment,
           newUser'.enrollment = newUser.enrollment
    PROVE  ChallengesFit'
<1>1. PICK n \in Nat : n = Len(challenges)
    BY DEF EnrollmentState
<1>2. PICK c \in Nat : c = Cardinality(beginning) /\ n + c < MaxChallenges
    BY <1>1, FS_CardinalityType DEF ChallengesFit, Ask
<1>3. IsFiniteSet(beginning') /\ Cardinality(beginning') \in {c, c + 1}
    BY <1>2, FS_AddElement DEF ChallengesFit, Ask
<1>4. n + Cardinality(beginning') <= MaxChallenges
    <2>1. PICK d \in Nat : d = Cardinality(beginning') /\ (d = c \/ d = c + 1)
        BY <1>3
    <2>2. n + d <= MaxChallenges
        BY ONLY <1>2, <2>1, n \in Nat, c \in Nat, d \in Nat, EnrollmentAssumption
    <2>3. QED
        BY ONLY <2>1, <2>2
<1>5. QED
    BY <1>1, <1>3, <1>4 DEF ChallengesFit

\* One that was asked for comes.
LEMMA AnsweredFits ==
    ASSUME EnrollmentState, ChallengesFit, NEW request \in beginning, TotpAnswered(request)
    PROVE  ChallengesFit'
<1>1. PICK n \in Nat : n = Len(challenges) /\ challenges \in Seq(Challenge)
    BY DEF EnrollmentState
<1>2. PICK c \in Nat : c = Cardinality(beginning) /\ n + c <= MaxChallenges
    BY <1>1, FS_CardinalityType DEF ChallengesFit
<1>3. /\ IsFiniteSet(beginning') /\ Cardinality(beginning') = c - 1
    BY <1>2, FS_RemoveElement DEF ChallengesFit, TotpAnswered
<1>4. Len(challenges') = n + 1
    <2>1. request \in [page : {"invited", "settings"}, of : Account \union {NoAccount}]
        BY DEF EnrollmentState
    <2>2. [page |-> request.page, of |-> request.of, live |-> TRUE] \in Challenge
        BY <2>1 DEF Challenge
    <2>3. QED
        BY <1>1, <2>2 DEF TotpAnswered
<1>5. /\ invited \in InvitedPage /\ newUser \in UserForm
      /\ invited.enrollment <= n /\ newUser.enrollment <= n
    BY <1>1 DEF ChallengesFit, EnrollmentState
<1>6. /\ invited'.enrollment \in {invited.enrollment, n + 1}
      /\ newUser'.enrollment \in {newUser.enrollment, n + 1}
    BY <1>4, <1>5 DEF TotpAnswered, InvitedPage, UserForm
<1>7. invited'.enrollment <= n + 1 /\ newUser'.enrollment <= n + 1
    BY <1>5, <1>6 DEF InvitedPage, UserForm
<1>8. n + 1 + (c - 1) <= MaxChallenges
    BY ONLY <1>2, n \in Nat, c \in Nat, EnrollmentAssumption
<1>9. QED
    BY <1>3, <1>4, <1>7, <1>8 DEF ChallengesFit

LEMMA ChallengesStillFit ==
    ASSUME EnrollmentInv, AccountsTyped, ChallengesFit, EnrollmentNext
    PROVE  ChallengesFit'
<1>0. /\ EnrollmentState /\ accepting \in AccountRequest /\ creating \in AccountRequest
      /\ invited \in InvitedPage /\ newUser \in UserForm
      /\ invitation \in [role : {"none", "viewer", "admin"}, used : BOOLEAN]
    BY DEF EnrollmentInv, EnrollmentState
<1> USE DEF serverVars, invitedVars, settingsVars, sectionVars
<1>1. CASE ServeInvitation \/ ServeUser
    <2>1. UNCHANGED <<beginning, invited, newUser>>
        BY <1>1 DEF ServeInvitation, ServeUser
    <2>2. Len(challenges') = Len(challenges)
        <3>1. CASE ServeInvitation
            BY <1>0, <3>1, ServedTypes DEF ServeInvitation
        <3>2. CASE ServeUser
            BY <1>0, <3>2, ServedTypes DEF ServeUser
        <3>3. QED
            BY <1>1, <3>1, <3>2
    <2>3. QED
        BY <1>0, <2>1, <2>2, FewerFit
<1>2. CASE ConfigureInvited \/ ConfigureUser
    <2>1. \E request : Ask(request)
        BY <1>2 DEF ConfigureInvited, ConfigureUser
    <2>2. /\ UNCHANGED challenges /\ invited'.enrollment = invited.enrollment
          /\ newUser'.enrollment = newUser.enrollment
        BY <1>0, <1>2 DEF ConfigureInvited, ConfigureUser, InvitedPage
    <2>3. QED
        BY <1>0, <2>1, <2>2, AskedFits
<1>3. CASE \E request \in beginning : TotpAnswered(request)
    BY <1>0, <1>3, AnsweredFits
<1>4. CASE \/ OpenInvitation \/ StatusAnswered \/ InvitationAccepted \/ InvitationRefused
           \/ FinishInvited \/ ReloadInvited
           \/ \E u \in Account : TypeInvited(u)
           \/ \E code \in BOOLEAN : AcceptInvited(code)
           \/ \E request \in beginning : TotpRefused(request)
    <2>1. UNCHANGED <<challenges, newUser>> /\ beginning' \subseteq beginning
        BY <1>4 DEF OpenInvitation, StatusAnswered, InvitationAccepted, InvitationRefused,
                    FinishInvited, ReloadInvited, TypeInvited, AcceptInvited, TotpRefused, Without
    <2>2. invited'.enrollment \in {0, invited.enrollment}
        <3>1. NewPage.enrollment = 0 /\ Elsewhere("home").enrollment = 0
            BY DEF NewPage, Elsewhere
        <3>2. QED
            BY <1>0, <1>4, <3>1
               DEF OpenInvitation, StatusAnswered, InvitationAccepted, InvitationRefused,
                   FinishInvited, ReloadInvited, TypeInvited, AcceptInvited, TotpRefused,
                   InvitedPage
    <2>3. QED
        BY <1>0, <2>1, <2>2, FewerFit
<1>5. CASE \/ \E role \in {"viewer", "admin"} : ChooseRole(role)
           \/ \E u \in Account : TypeUser(u)
           \/ UserCreated \/ CreateAnother \/ LeaveSettings
    <2>1. UNCHANGED <<challenges, invited>> /\ beginning' \subseteq beginning
        BY <1>5 DEF ChooseRole, TypeUser, UserCreated, CreateAnother, LeaveSettings, Without
    <2>2. newUser'.enrollment \in {0, newUser.enrollment}
        BY <1>0, <1>5 DEF ChooseRole, TypeUser, UserCreated, CreateAnother, LeaveSettings,
                          EmptyForm, UserForm
    <2>3. QED
        BY <1>0, <2>1, <2>2, FewerFit
<1>6. CASE \/ Dismiss \/ UserRefused \/ UsersAnswered \/ confirmDelete
           \/ ChangePassword \/ RevokeSessions \/ OpenSettings
           \/ TypeName(NoDeletion) \/ TypeName([deletion EXCEPT !.typed = TRUE])
           \/ \E u \in Account : AskDelete(u)
           \/ \E code \in BOOLEAN : CreateUser(code)
           \/ \E role \in {"viewer", "admin"} :
                 CreateInvitation(role) \/ \E u \in Account : ChangeRole(u, role)
    <2>1. UNCHANGED <<challenges, beginning, invited, newUser>>
        BY <1>6 DEF Dismiss, UserRefused, UsersAnswered, confirmDelete, ChangePassword,
                    RevokeSessions, OpenSettings, TypeName, AskDelete, CreateUser,
                    CreateInvitation, ChangeRole
    <2>2. QED
        BY <1>0, <2>1, FewerFit
<1>7. QED
    BY <1>1, <1>2, <1>3, <1>4, <1>5, <1>6 DEF EnrollmentNext

LEMMA EnrollmentTypesStep == EnrollmentTypes /\ [EnrollmentNext]_enrollmentVars => EnrollmentTypes'
<1> SUFFICES ASSUME EnrollmentTypes, [EnrollmentNext]_enrollmentVars PROVE EnrollmentTypes'
    OBVIOUS
<1>1. EnrollmentInv'
    BY EnrollmentStep DEF EnrollmentTypes
<1>2. CASE EnrollmentNext
    BY <1>1, <1>2, AccountsStayTyped, ChallengesStillFit DEF EnrollmentTypes
<1>3. CASE UNCHANGED enrollmentVars
    BY <1>1, <1>3 DEF EnrollmentTypes, AccountsTyped, ChallengesFit,
                      enrollmentVars, serverVars, invitedVars, settingsVars, sectionVars
<1>4. QED
    BY <1>2, <1>3

LEMMA EnrollmentTyped == EnrollmentTypes => EnrollmentTypeOK
<1> SUFFICES ASSUME EnrollmentTypes PROVE EnrollmentTypeOK
    OBVIOUS
<1>1. PICK n \in Nat : n = Len(challenges)
    BY DEF EnrollmentTypes, EnrollmentInv, EnrollmentState
<1>2. PICK c \in Nat : c = Cardinality(beginning) /\ n + c <= MaxChallenges
    BY <1>1, FS_CardinalityType DEF EnrollmentTypes, ChallengesFit
<1>3. n <= MaxChallenges
    BY ONLY <1>2, n \in Nat, c \in Nat, EnrollmentAssumption
<1>4. /\ invited.enrollment \in 0..n /\ newUser.enrollment \in 0..n
      /\ invited.at \in {"away", "form", "broken", "home"}
      /\ settings \in {"open", "changing", "revoked", "closed"}
    BY <1>1 DEF EnrollmentTypes, ChallengesFit, EnrollmentInv, EnrollmentState,
                InvitedPage, UserForm
<1>5. QED
    BY <1>1, <1>3, <1>4 DEF EnrollmentTypes, AccountsTyped, EnrollmentTypeOK

\* The pages never name a challenge that has not come, and no more challenges are
\* asked for than fit.
THEOREM EnrollmentIsTyped == EnrollmentSpec => []EnrollmentTypeOK
    BY EnrollmentTypesInitially, EnrollmentTypesStep, EnrollmentTyped, PTL DEF EnrollmentSpec

-----------------------------------------------------------------------------
(* Session: the invariant. *)

Ui == [page : Page \union {"/login", "/onboarding"}, from : Page, user : Someone, locked : BOOLEAN,
       remembered : Someone, selected : Someone, data : Someone,
       error : {"none", "401", "other"}, asking : BOOLEAN, by : Someone \union {Expired},
       stale : BOOLEAN, overtaken : BOOLEAN]
Panel == [id : Someone, challenge : BOOLEAN, done : BOOLEAN, timer : BOOLEAN, left : BOOLEAN,
          dest : Page, call : {"none", "unlock", "login", "mfa", "refetch"}]
Cookie == Someone \union {Expired}

\* What the query has asked: with the cookie there is, unless a login or a
\* sign-out has overtaken it.
FetchIsOfTheCookie(u, c) ==
    /\ ~u.asking => u.by = Nobody
    /\ u.asking /\ c \in User => u.by = c \/ u.overtaken
    /\ c = Nobody => u.by \notin User \/ u.overtaken

\* What the query holds: of another session only while it is marked stale or
\* asked for again, or by such an answer.
DataIsOfTheCookie(u, c) ==
    u.data # Nobody /\ ~u.stale /\ ~u.asking =>
        /\ c \in User => u.data = c \/ u.overtaken
        /\ c = Nobody /\ u.error = "none" => u.overtaken

\* A page that shows what is marked stale asks again.
PagesAskAgain(u) == Content(u) => u.asking \/ ~u.stale

\* The stores name the account of the answer, or of the one that is asked for.
UserIsOfTheData(u, o) ==
    Content(u) /\ o # "refetch" => u.user = u.data \/ (u.asking /\ u.user = u.by)

QueryInv(u, c, o) ==
    /\ FetchIsOfTheCookie(u, c) /\ DataIsOfTheCookie(u, c)
    /\ PagesAskAgain(u) /\ UserIsOfTheData(u, o)

\* Of the panels ps with the one in slot on shown: it has not been left, one that
\* waits without being shown has, and nobody's panel asks.
PanelsAreLeft(ps, on) ==
    /\ on # 0 => ~ps[on].left /\ ps[on].id # Nobody
    /\ \A s \in PanelSlot :
          ps[s].call # "none" => ps[s].id # Nobody /\ (s # on => ps[s].left)

\* Nothing can take a lock away but the answer to a panel that was left.
OnlyLeftOnes(ps) ==
    \A s \in PanelSlot : ps[s].timer \/ ps[s].call = "refetch" => ps[s].left

\* The overlay is gone when nothing is locked, no login overlaps a sign-out, and
\* since a lock was asked for nothing has been accepted.
OverlayInv ==
    /\ PanelsAreLeft(panels, shown)
    /\ ~ui.locked => shown = 0
    /\ out # "no" => \A s \in PanelSlot : panels[s].call = "none"
    /\ owed => OnlyLeftOnes(panels)

SessionInv == SessionTypeOK /\ QueryInv(ui, cookie, out) /\ OverlayInv

-----------------------------------------------------------------------------
(* Session: the query. *)

LEMMA TypesKept ==
    ASSUME cookie' \in Cookie, ui' \in Ui, panels' \in [PanelSlot -> Panel],
           shown' \in 0..MaxPanels, out' \in {"no", "logout", "refetch"}, owed' \in BOOLEAN
    PROVE  SessionTypeOK'
BY Zenon DEF SessionTypeOK, Cookie, Ui, Panel

LEMMA SessionTypes ==
    SessionTypeOK <=>
        /\ cookie \in Cookie /\ ui \in Ui /\ panels \in [PanelSlot -> Panel]
        /\ shown \in 0..MaxPanels /\ out \in {"no", "logout", "refetch"} /\ owed \in BOOLEAN
BY DEF SessionTypeOK, Cookie, Ui, Panel

\* A fetch joins the first one under way, or is asked with the cookie given.
LEMMA Refetched ==
    ASSUME NEW u \in Ui, NEW c \in Cookie
    PROVE  /\ RefetchSession(u, c) \in Ui
           /\ RefetchSession(u, c).asking
           /\ u.asking /\ u.data = Nobody => RefetchSession(u, c) = u
           /\ ~(u.asking /\ u.data = Nobody) =>
                 RefetchSession(u, c).by = c /\ ~RefetchSession(u, c).overtaken
           /\ RefetchSession(u, c).page = u.page /\ RefetchSession(u, c).user = u.user
           /\ RefetchSession(u, c).data = u.data /\ RefetchSession(u, c).error = u.error
           /\ RefetchSession(u, c).stale = u.stale /\ RefetchSession(u, c).locked = u.locked
BY DEF RefetchSession, Ui, Cookie

LEMMA OvertakenIsTyped == ui \in Ui => Overtaken(ui) \in BOOLEAN
BY DEF Overtaken, Ui

LEMMA OnLoginPage ==
    ASSUME NEW u \in Ui, NEW p \in Page
    PROVE  /\ LoginPage(u, p) \in Ui /\ ~Gated(LoginPage(u, p)) /\ LoginPage(u, p).locked
           /\ LoginPage(u, p).asking = u.asking /\ LoginPage(u, p).by = u.by
           /\ LoginPage(u, p).data = u.data /\ LoginPage(u, p).error = u.error
           /\ LoginPage(u, p).stale = u.stale /\ LoginPage(u, p).overtaken = u.overtaken
<1> DEFINE l == LoginPage(u, p)
<1>1. "/login" \notin Page
    BY SessionAssumption DEF SessionAssumption
<1>2. /\ l \in Ui /\ l.page = "/login" /\ l.locked /\ l.asking = u.asking /\ l.by = u.by
      /\ l.data = u.data /\ l.error = u.error /\ l.stale = u.stale /\ l.overtaken = u.overtaken
    BY DEF LoginPage, Ui, Someone
<1>3. QED
    BY <1>1, <1>2 DEF Gated

LEMMA EnteringKeepsQuery ==
    ASSUME NEW u \in Ui, NEW p \in Page, NEW c \in Cookie, NEW o,
           FetchIsOfTheCookie(u, c), DataIsOfTheCookie(u, c)
    PROVE  /\ EnterGate(u, p, c) \in Ui /\ QueryInv(EnterGate(u, p, c), c, o)
           /\ u.locked => EnterGate(u, p, c).locked
<1> DEFINE v == [u EXCEPT !.page = p, !.from = Home]
           w == IF u.asking THEN v ELSE RefetchSession(v, c)
           g == EnterGate(u, p, c)
<1>0. "/login" \notin Page /\ Home \in Page /\ Nobody \notin User /\ Expired \notin User
    BY SessionAssumption DEF SessionAssumption
<1>1. /\ v \in Ui /\ v.page = p /\ v.data = u.data /\ v.error = u.error /\ v.asking = u.asking
      /\ v.by = u.by /\ v.stale = u.stale /\ v.overtaken = u.overtaken /\ v.locked = u.locked
    BY <1>0 DEF Ui
<1>2. g = IF u.data = Nobody THEN [w EXCEPT !.error = "none"]
          ELSE IF u.error = "401" THEN LoginPage([w EXCEPT !.user = Nobody], p)
          ELSE [IF u.stale THEN w ELSE v EXCEPT !.user = u.data]
    BY DEF EnterGate
<1> HIDE DEF v
<1>3. /\ w \in Ui /\ w.asking /\ w.page = p /\ w.data = u.data /\ w.error = u.error
      /\ w.locked = u.locked /\ (w.by = c \/ (w.by = u.by /\ w.overtaken = u.overtaken /\ u.asking))
    <2>1. CASE u.asking
        BY <1>1, <2>1
    <2>2. CASE ~u.asking
        <3>1. ~(v.asking /\ v.data = Nobody)
            BY <1>1, <2>2, Zenon
        <3>2. /\ RefetchSession(v, c) \in Ui /\ RefetchSession(v, c).asking
              /\ RefetchSession(v, c).by = c /\ RefetchSession(v, c).page = v.page
              /\ RefetchSession(v, c).data = v.data /\ RefetchSession(v, c).error = v.error
              /\ RefetchSession(v, c).locked = v.locked
            BY <1>1, <3>1, Refetched
        <3>3. w = RefetchSession(v, c)
            BY <2>2
        <3> HIDE DEF w
        <3>4. QED
            BY <1>1, <3>2, <3>3
    <2>3. QED
        BY <2>1, <2>2
<1> HIDE DEF w
<1>4. FetchIsOfTheCookie(w, c)
    BY <1>0, <1>3 DEF FetchIsOfTheCookie
<1>5. CASE u.data = Nobody
    <2>1. g = [w EXCEPT !.error = "none"]
        BY <1>2, <1>5
    <2> HIDE DEF g
    <2>2. /\ g \in Ui /\ g.asking /\ g.by = w.by /\ g.overtaken = w.overtaken /\ g.page = p
          /\ g.data = Nobody /\ g.locked = u.locked
        BY <1>3, <1>5, <2>1 DEF Ui
    <2>3. QueryInv(g, c, o)
        BY <1>4, <2>2, <1>3 DEF QueryInv, FetchIsOfTheCookie, DataIsOfTheCookie, PagesAskAgain,
            UserIsOfTheData, Content
    <2>4. QED
        BY <2>2, <2>3 DEF g
<1>6. CASE u.data # Nobody /\ u.error = "401"
    <2> DEFINE x == [w EXCEPT !.user = Nobody]
    <2>1. g = LoginPage(x, p)
        BY <1>2, <1>6
    <2>2. /\ x \in Ui /\ x.asking /\ x.by = w.by /\ x.overtaken = w.overtaken
        BY <1>3 DEF Ui, Someone
    <2> HIDE DEF g, x
    <2>3. /\ g \in Ui /\ ~Gated(g) /\ g.locked /\ g.asking /\ g.by = w.by
          /\ g.overtaken = w.overtaken
        BY <2>1, <2>2, OnLoginPage
    <2>4. QueryInv(g, c, o)
        BY <1>4, <1>3, <2>3 DEF QueryInv, FetchIsOfTheCookie, DataIsOfTheCookie, PagesAskAgain,
            UserIsOfTheData, Content
    <2>5. QED
        BY <2>3, <2>4 DEF g
<1>7. CASE u.data # Nobody /\ u.error # "401"
    <2> DEFINE y == IF u.stale THEN w ELSE v
    <2>1. g = [y EXCEPT !.user = u.data]
        BY <1>2, <1>7
    <2>2. /\ y \in Ui /\ y.page = p /\ y.data = u.data /\ y.locked = u.locked
          /\ y.error = u.error /\ FetchIsOfTheCookie(y, c)
          /\ y.asking \/ (~y.stale /\ ~u.stale /\ ~u.asking /\ y.overtaken = u.overtaken)
        <3>1. CASE u.stale
            BY <1>3, <1>4, <3>1
        <3>2. CASE ~u.stale
            <4>1. FetchIsOfTheCookie(v, c)
                BY <1>1 DEF FetchIsOfTheCookie
            <4>2. y = v
                BY <3>2
            <4> HIDE DEF y
            <4>3. QED
                BY <1>1, <3>2, <4>1, <4>2, Zenon
        <3>3. QED
            BY <3>1, <3>2
    <2> HIDE DEF g, y
    <2>3. /\ g \in Ui /\ g.page = p /\ g.data = u.data /\ g.locked = u.locked /\ g.user = u.data
          /\ g.error = u.error /\ g.asking = y.asking /\ g.by = y.by /\ g.stale = y.stale
          /\ g.overtaken = y.overtaken
        BY <2>1, <2>2 DEF Ui
    <2>4. FetchIsOfTheCookie(g, c)
        BY <2>2, <2>3 DEF FetchIsOfTheCookie
    <2>5. DataIsOfTheCookie(g, c) /\ PagesAskAgain(g) /\ UserIsOfTheData(g, o)
        BY <2>2, <2>3 DEF DataIsOfTheCookie, PagesAskAgain, UserIsOfTheData
    <2>6. QED
        BY <2>3, <2>4, <2>5 DEF QueryInv, g
<1>8. QED
    BY <1>5, <1>6, <1>7

LEMMA SessionInitially == SessionInit => SessionInv
<1> SUFFICES ASSUME SessionInit PROVE SessionInv
    OBVIOUS
<1>0. /\ Nobody \notin User /\ Home \in Page /\ "/login" \notin Page /\ MaxPanels \in Nat
      /\ FreePanel \in Panel /\ FreePanel.call = "none" /\ ~FreePanel.timer
    BY SessionAssumption DEF SessionAssumption, FreePanel, Panel, Someone
<1>1. SessionTypeOK
    <2>1. ui \in Ui
        BY <1>0 DEF SessionInit, Ui, Someone
    <2>2. QED
        <3>1. /\ cookie \in Cookie /\ panels \in [PanelSlot -> Panel] /\ shown \in 0..MaxPanels
              /\ out \in {"no", "logout", "refetch"}
            BY <1>0 DEF SessionInit, Cookie, Someone
        <3>2. owed \in BOOLEAN
            BY Zenon DEF SessionInit
        <3>3. QED
            BY <2>1, <3>1, <3>2, SessionTypes
<1>2. QueryInv(ui, cookie, out)
    BY <1>0 DEF SessionInit, QueryInv, FetchIsOfTheCookie, PagesAskAgain, DataIsOfTheCookie,
        UserIsOfTheData, Content, Gated
<1>3. OverlayInv
    BY <1>0 DEF SessionInit, OverlayInv, PanelsAreLeft, OnlyLeftOnes
<1>4. QED
    BY <1>1, <1>2, <1>3 DEF SessionInv

\* The answer of the session query.
LEMMA QueryArrives ==
    ASSUME SessionInv, SessionArrives
    PROVE  /\ ui' \in Ui /\ QueryInv(ui', cookie, out) /\ (ui.locked => ui'.locked)
           /\ Rendered(ui', panels) /\ UNCHANGED <<cookie, out, owed>>
<1> DEFINE v == [ui EXCEPT !.asking = FALSE, !.by = Nobody]
<1>0. /\ "/login" \notin Page /\ Home \in Page /\ Nobody \notin User /\ Expired \notin User
    BY SessionAssumption DEF SessionAssumption
<1>1. /\ ui \in Ui /\ cookie \in Cookie /\ QueryInv(ui, cookie, out) /\ ui.asking
      /\ UNCHANGED <<cookie, out, owed>>
    BY SessionTypes DEF SessionInv, SessionArrives
<1>2. Gated(ui) => ui.page \in Page
    BY <1>1 DEF Ui, Gated
<1>3. CASE /\ ui.by \in User
           /\ LET w == [v EXCEPT !.data = ui.by, !.error = "none", !.stale = FALSE] IN
              Screen(IF Gated(ui) /\ (ui.data # ui.by \/ ui.error # "none")
                     THEN [w EXCEPT !.user = ui.by] ELSE w)
    <2>1. /\ ui' \in Ui /\ ui'.page = ui.page /\ ui'.locked = ui.locked /\ ~ui'.asking
          /\ ui'.by = Nobody /\ ui'.data = ui.by /\ ui'.error = "none" /\ ~ui'.stale
          /\ ui'.overtaken = ui.overtaken
          /\ Gated(ui) => ui'.user = ui.by \/ (ui'.user = ui.user /\ ui.data = ui.by /\ ui.error = "none")
        <3> DEFINE w == [v EXCEPT !.data = ui.by, !.error = "none", !.stale = FALSE]
        <3>1. ui' = IF Gated(ui) /\ (ui.data # ui.by \/ ui.error # "none")
                    THEN [w EXCEPT !.user = ui.by] ELSE w
            BY <1>3 DEF Screen
        <3>2. /\ w \in Ui /\ w.page = ui.page /\ w.locked = ui.locked /\ ~w.asking
              /\ w.by = Nobody /\ w.data = ui.by /\ w.error = "none" /\ ~w.stale
              /\ w.overtaken = ui.overtaken /\ w.user = ui.user
            BY <1>1, <1>3 DEF Ui, Someone
        <3>3. ui.by \in Someone
            BY <1>3 DEF Someone
        <3> HIDE DEF w
        <3>4. QED
            BY <3>1, <3>2, <3>3 DEF Ui
    <2>2. QueryInv(ui', cookie, out)
        BY <1>0, <1>1, <1>3, <2>1 DEF QueryInv, FetchIsOfTheCookie, PagesAskAgain,
            DataIsOfTheCookie, UserIsOfTheData, Content, Gated
    <2>3. Rendered(ui', panels)
        BY <1>3 DEF Screen
    <2>4. QED
        BY <1>1, <2>1, <2>2, <2>3
<1>4. CASE /\ ui.by \notin User \/ ui.by # cookie
           /\ LET w == [v EXCEPT !.error = "401", !.stale = TRUE] IN
              Screen(IF Gated(ui) THEN LoginPage([w EXCEPT !.user = Nobody], ui.page) ELSE w)
    <2> DEFINE w == [v EXCEPT !.error = "401", !.stale = TRUE]
               x == [w EXCEPT !.user = Nobody]
    <2>1. /\ w \in Ui /\ w.page = ui.page /\ w.locked = ui.locked /\ ~w.asking /\ w.by = Nobody
          /\ w.data = ui.data /\ w.error = "401" /\ w.stale
        BY <1>1 DEF Ui, Someone
    <2>2. x \in Ui /\ ~x.asking /\ x.by = Nobody /\ x.data = ui.data /\ x.error = "401" /\ x.stale
        BY <1>1 DEF Ui, Someone
    <2>3. ui' = IF Gated(ui) THEN LoginPage(x, ui.page) ELSE w
        BY <1>4 DEF Screen
    <2>4. Rendered(ui', panels)
        BY <1>4 DEF Screen
    <2> HIDE DEF w, x
    <2>5. /\ ui' \in Ui /\ ~Gated(ui') /\ (ui.locked => ui'.locked) /\ ~ui'.asking
          /\ ui'.by = Nobody /\ ui'.data = ui.data /\ ui'.error = "401" /\ ui'.stale
        <3>1. CASE Gated(ui)
            BY <1>2, <2>2, <2>3, <3>1, OnLoginPage
        <3>2. CASE ~Gated(ui)
            BY <2>1, <2>3, <3>2 DEF Gated
        <3>3. QED
            BY <3>1, <3>2
    <2>7. QueryInv(ui', cookie, out)
        BY <1>0, <2>5 DEF QueryInv, FetchIsOfTheCookie, PagesAskAgain,
            DataIsOfTheCookie, UserIsOfTheData, Content
    <2>8. QED
        BY <1>1, <2>4, <2>5, <2>7
<1>5. CASE LET w == [v EXCEPT !.error = "other", !.stale = TRUE] IN
           Screen(IF Gated(ui) /\ ui.data # Nobody THEN [w EXCEPT !.user = ui.data] ELSE w)
    <2>1. /\ ui' \in Ui /\ ui'.page = ui.page /\ ui'.locked = ui.locked /\ ~ui'.asking
          /\ ui'.by = Nobody /\ ui'.data = ui.data /\ ui'.error = "other" /\ ui'.stale
        <3> DEFINE w == [v EXCEPT !.error = "other", !.stale = TRUE]
        <3>1. ui' = IF Gated(ui) /\ ui.data # Nobody THEN [w EXCEPT !.user = ui.data] ELSE w
            BY <1>5 DEF Screen
        <3>2. /\ w \in Ui /\ w.page = ui.page /\ w.locked = ui.locked /\ ~w.asking
              /\ w.by = Nobody /\ w.data = ui.data /\ w.error = "other" /\ w.stale
            BY <1>1 DEF Ui, Someone
        <3>3. ui.data \in Someone
            BY <1>1 DEF Ui
        <3> HIDE DEF w
        <3>4. QED
            BY <3>1, <3>2, <3>3 DEF Ui
    <2>2. QueryInv(ui', cookie, out)
        BY <1>0, <1>1, <2>1 DEF QueryInv, FetchIsOfTheCookie, PagesAskAgain,
            DataIsOfTheCookie, UserIsOfTheData, Content, Gated
    <2>3. Rendered(ui', panels)
        BY <1>5 DEF Screen
    <2>4. QED
        BY <1>1, <2>1, <2>2, <2>3
<1>6. QED
    BY <1>3, <1>4, <1>5 DEF SessionArrives

\* The invariant of the query is about these fields.
LEMMA SameQuery ==
    ASSUME NEW u \in Ui, NEW w \in Ui, NEW c \in Cookie, NEW o, QueryInv(u, c, o),
           w.data = u.data, w.error = u.error, w.asking = u.asking, w.by = u.by,
           w.stale = u.stale, w.overtaken = u.overtaken, w.user = u.user,
           Gated(w) <=> Gated(u)
    PROVE  QueryInv(w, c, o)
BY DEF QueryInv, FetchIsOfTheCookie, PagesAskAgain, DataIsOfTheCookie, UserIsOfTheData, Content

\* The steps of the user and of the query library that involve no server.
LEMMA QueryOfThePage ==
    ASSUME SessionInv,
           \/ FocusRefetch \/ Collect \/ SelectUser \/ SwitchUser \/ Lock \/ Navigate
           \/ OpenOnboarding
    PROVE  /\ ui' \in Ui /\ QueryInv(ui', cookie, out)
           /\ ui.locked => ui'.locked \/ ui'.page = "/onboarding"
           /\ Rendered(ui', panels) /\ UNCHANGED <<cookie, out>>
<1>0. /\ "/login" \notin Page /\ Home \in Page /\ Nobody \notin User /\ Expired \notin User
    BY SessionAssumption DEF SessionAssumption
<1>1. ui \in Ui /\ cookie \in Cookie /\ QueryInv(ui, cookie, out)
    BY SessionTypes DEF SessionInv
<1>2. CASE FocusRefetch
    <2> DEFINE r == RefetchSession(ui, cookie)
    <2>1. /\ Gated(ui) /\ ~ui.asking /\ UNCHANGED <<cookie, out>>
          /\ ui' = IF ui.data = Nobody THEN [r EXCEPT !.error = "none"] ELSE r
          /\ Rendered(ui', panels)
        BY <1>2 DEF FocusRefetch, Screen
    <2>2. /\ r \in Ui /\ r.asking /\ r.by = cookie /\ r.page = ui.page /\ r.user = ui.user
          /\ r.data = ui.data /\ r.error = ui.error /\ r.stale = ui.stale /\ r.locked = ui.locked
        BY <1>1, <2>1, Refetched
    <2> HIDE DEF r
    <2>3. /\ ui' \in Ui /\ ui'.asking /\ ui'.by = cookie /\ ui'.page = ui.page
          /\ ui'.user = ui.user /\ ui'.data = ui.data /\ ui'.stale = ui.stale
          /\ ui'.locked = ui.locked /\ (ui.data # Nobody => ui'.error = ui.error)
        BY <2>1, <2>2 DEF Ui
    <2>4. QueryInv(ui', cookie, out)
        BY <1>0, <1>1, <2>1, <2>3 DEF QueryInv, FetchIsOfTheCookie, PagesAskAgain,
            DataIsOfTheCookie, UserIsOfTheData, Content, Gated
    <2>5. QED
        BY <2>1, <2>3, <2>4
<1>3. CASE Collect
    <2>1. /\ ~Gated(ui) /\ ~ui.asking /\ UNCHANGED <<cookie, out>>
          /\ ui' = [ui EXCEPT !.data = Nobody, !.error = "none", !.stale = TRUE]
          /\ Rendered(ui', panels)
        BY <1>3 DEF Collect, Screen
    <2>2. /\ ui' \in Ui /\ ui'.page = ui.page /\ ~ui'.asking /\ ui'.by = ui.by /\ ui'.data = Nobody
          /\ ui'.locked = ui.locked
        BY <1>1, <2>1 DEF Ui, Someone
    <2>3. QueryInv(ui', cookie, out)
        BY <1>0, <1>1, <2>1, <2>2 DEF QueryInv, FetchIsOfTheCookie, PagesAskAgain,
            DataIsOfTheCookie, UserIsOfTheData, Content, Gated
    <2>4. QED
        BY <2>1, <2>2, <2>3
<1>4. CASE SelectUser \/ SwitchUser \/ Lock \/ Navigate
    <2>1. /\ UNCHANGED <<cookie, out>> /\ Rendered(ui', panels)
          /\ ui' \in Ui /\ (ui.locked => ui'.locked) /\ (Gated(ui') <=> Gated(ui))
          /\ ui'.data = ui.data /\ ui'.error = ui.error /\ ui'.asking = ui.asking
          /\ ui'.by = ui.by /\ ui'.stale = ui.stale /\ ui'.overtaken = ui.overtaken
          /\ ui'.user = ui.user
        <3>1. CASE SelectUser
            <4>1. PICK t \in User : Screen([ui EXCEPT !.selected = t])
                BY <3>1 DEF SelectUser
            <4>2. ui' = [ui EXCEPT !.selected = t] /\ Rendered(ui', panels) /\ t \in Someone
                BY <4>1 DEF Screen, Someone
            <4>3. UNCHANGED <<cookie, out>>
                BY <3>1 DEF SelectUser
            <4>4. QED
                BY <1>1, <4>2, <4>3 DEF Ui, Gated
        <3>2. CASE SwitchUser
            <4>1. /\ ui' = [ui EXCEPT !.selected = Nobody, !.remembered = Nobody]
                  /\ Rendered(ui', panels) /\ UNCHANGED <<cookie, out>>
                BY <3>2 DEF SwitchUser, Screen
            <4>2. QED
                BY <1>1, <4>1 DEF Ui, Someone, Gated
        <3>3. CASE Lock
            <4>1. /\ ui' = [ui EXCEPT !.locked = TRUE, !.selected = Nobody]
                  /\ Rendered(ui', panels) /\ UNCHANGED <<cookie, out>>
                BY <3>3 DEF Lock, Screen
            <4>2. QED
                BY <1>1, <4>1 DEF Ui, Someone, Gated
        <3>4. CASE Navigate
            <4>1. PICK p \in Page : Screen([ui EXCEPT !.page = p])
                BY <3>4 DEF Navigate
            <4>2. Gated(ui)
                BY <3>4 DEF Navigate, Usable, Content
            <4>3. QED
                BY <1>0, <1>1, <3>4, <4>1, <4>2 DEF Navigate, Screen, Ui, Gated
        <3>5. QED
            BY <1>4, <3>1, <3>2, <3>3, <3>4
    <2>2. QueryInv(ui', cookie, out)
        BY <1>1, <2>1, SameQuery
    <2>3. QED
        BY <2>1, <2>2
<1>5. CASE OpenOnboarding
    <2>1. /\ UNCHANGED <<cookie, out>> /\ Rendered(ui', panels)
          /\ ui' = [ui EXCEPT !.page = "/onboarding", !.from = Home, !.locked = FALSE,
                              !.remembered = Nobody, !.selected = Nobody]
        BY <1>5 DEF OpenOnboarding, Screen
    <2>2. /\ ui' \in Ui /\ ui'.page = "/onboarding" /\ ~Gated(ui')
          /\ ui'.data = ui.data /\ ui'.error = ui.error /\ ui'.asking = ui.asking
          /\ ui'.by = ui.by /\ ui'.stale = ui.stale /\ ui'.overtaken = ui.overtaken
        BY <1>0, <1>1, <2>1, SessionAssumption DEF SessionAssumption, Ui, Someone, Gated
    <2>3. QueryInv(ui', cookie, out)
        BY <1>1, <2>2 DEF QueryInv, FetchIsOfTheCookie, DataIsOfTheCookie, PagesAskAgain,
            UserIsOfTheData, Content
    <2>4. QED
        BY <2>1, <2>2, <2>3
<1>6. QED
    BY <1>2, <1>3, <1>4, <1>5

\* The sign-out, from the menu to the picker, and the ways back into the pages.
LEMMA QueryOfTheSignOut ==
    ASSUME SessionInv, Logout \/ SignedOut \/ Back \/ LeaveOnboarding
    PROVE  /\ cookie' \in Cookie /\ out' \in {"no", out, "refetch"}
           /\ ui' \in Ui /\ QueryInv(ui', cookie', out') /\ (ui.locked => ui'.locked)
           /\ Rendered(ui', panels) /\ UNCHANGED owed
           /\ out' # "no" => out # "no"
<1>0. /\ "/login" \notin Page /\ Home \in Page /\ Nobody \notin User /\ Expired \notin User
    BY SessionAssumption DEF SessionAssumption
<1>1. ui \in Ui /\ cookie \in Cookie /\ QueryInv(ui, cookie, out)
    BY SessionTypes DEF SessionInv
<1>2. CASE Logout
    <2> DEFINE u == [ui EXCEPT !.selected = Nobody, !.remembered = Nobody, !.user = Nobody,
                               !.stale = TRUE, !.overtaken = Overtaken(ui)]
    <2>1. PICK ok \in BOOLEAN :
              /\ cookie' = IF ok THEN Nobody ELSE cookie
              /\ Screen(IF Gated(ui) THEN RefetchSession(u, IF ok THEN Nobody ELSE cookie) ELSE u)
        BY <1>2 DEF Logout
    <2>2. out = "logout" /\ out' = "refetch" /\ UNCHANGED owed
        BY <1>2 DEF Logout
    <2>3. cookie' \in Cookie /\ (cookie' = cookie \/ cookie' = Nobody)
        BY <1>1, <2>1 DEF Cookie, Someone
    <2>4. /\ ui' = IF Gated(ui) THEN RefetchSession(u, cookie') ELSE u
          /\ Rendered(ui', panels)
        BY <2>1 DEF Screen
    <2>5. /\ u \in Ui /\ u.page = ui.page /\ u.data = ui.data /\ u.error = ui.error
          /\ u.asking = ui.asking /\ u.by = ui.by /\ u.stale /\ u.overtaken = Overtaken(ui)
          /\ u.locked = ui.locked
        BY <1>1, OvertakenIsTyped DEF Ui, Someone
    <2> HIDE DEF u
    <2>6. CASE Gated(ui) /\ ~(ui.asking /\ ui.data = Nobody)
        <3> DEFINE r == RefetchSession(u, cookie')
        <3>0. ~(u.asking /\ u.data = Nobody)
            BY <2>5, <2>6, Zenon
        <3>1. /\ r \in Ui /\ r.asking /\ r.by = cookie' /\ r.data = u.data
              /\ r.page = u.page /\ r.stale = u.stale /\ r.locked = u.locked
            <4>1. u \in Ui /\ cookie' \in Cookie
                BY <2>3, <2>5
            <4>2. QED
                BY <3>0, <4>1, Refetched
        <3> HIDE DEF r
        <3>2. ui' = r
            BY <2>4, <2>6 DEF r
        <3>3. QueryInv(ui', cookie', out')
            BY <1>0, <2>2, <2>5, <3>1, <3>2 DEF QueryInv, FetchIsOfTheCookie,
                PagesAskAgain, DataIsOfTheCookie, UserIsOfTheData
        <3>4. QED
            BY <2>2, <2>3, <2>4, <2>5, <3>1, <3>2, <3>3
    <2>7. CASE ~Gated(ui) \/ (ui.asking /\ ui.data = Nobody)
        <3>1. ui' = u
            BY <2>3, <2>4, <2>5, <2>7, Refetched
        <3>2. u.asking => u.overtaken
            BY <2>5, <2>7 DEF Overtaken
        <3>3. ~u.asking => u.by = Nobody
            BY <1>1, <2>5 DEF QueryInv, FetchIsOfTheCookie
        <3>4. QueryInv(u, cookie', out')
            <4>1. FetchIsOfTheCookie(u, cookie') /\ DataIsOfTheCookie(u, cookie')
                BY <1>0, <2>5, <3>2, <3>3 DEF FetchIsOfTheCookie, DataIsOfTheCookie
            <4>2. ~Content(u)
                BY <2>5, <2>7 DEF Content, Gated
            <4>3. QED
                BY <4>1, <4>2 DEF QueryInv, PagesAskAgain, UserIsOfTheData
        <3>5. QED
            BY <2>2, <2>3, <2>4, <2>5, <3>1, <3>4
    <2>8. QED
        BY <2>6, <2>7
<1>3. CASE SignedOut
    <2>1. /\ out = "refetch" /\ (Gated(ui) => ~ui.asking)
          /\ ui' = IF ui.page = "/login" THEN [ui EXCEPT !.from = Home] ELSE LoginPage(ui, Home)
          /\ Rendered(ui', panels) /\ out' = "no" /\ UNCHANGED <<cookie, owed>>
        BY <1>3 DEF SignedOut, Screen
    <2>2. /\ ui' \in Ui /\ ~Gated(ui') /\ (ui.locked => ui'.locked)
          /\ ui'.asking = ui.asking /\ ui'.by = ui.by /\ ui'.data = ui.data
          /\ ui'.error = ui.error /\ ui'.stale = ui.stale /\ ui'.overtaken = ui.overtaken
        <3>1. CASE ui.page # "/login"
            BY <1>0, <1>1, <2>1, <3>1, OnLoginPage
        <3>2. CASE ui.page = "/login"
            BY <1>0, <1>1, <2>1, <3>2 DEF Ui, Gated
        <3>3. QED
            BY <3>1, <3>2
    <2>3. QueryInv(ui', cookie', out')
        BY <1>1, <2>1, <2>2 DEF QueryInv, FetchIsOfTheCookie, PagesAskAgain,
            DataIsOfTheCookie, UserIsOfTheData, Content
    <2>4. QED
        BY <1>1, <2>1, <2>2, <2>3
<1>4. CASE Back \/ LeaveOnboarding
    <2>1. \E p \in Page : Screen(EnterGate(ui, p, cookie))
        BY <1>0, <1>4 DEF Back, LeaveOnboarding
    <2>2. PICK p \in Page : Screen(EnterGate(ui, p, cookie))
        BY <2>1
    <2>3. UNCHANGED <<cookie, out, owed>>
        BY <1>4 DEF Back, LeaveOnboarding
    <2>4. ui' = EnterGate(ui, p, cookie) /\ Rendered(ui', panels)
        BY <2>2 DEF Screen
    <2>5. ui' \in Ui /\ QueryInv(ui', cookie, out) /\ (ui.locked => ui'.locked)
        BY <1>1, <2>4, EnteringKeepsQuery DEF QueryInv
    <2>6. QED
        BY <1>1, <2>3, <2>4, <2>5
<1>5. QED
    BY <1>2, <1>3, <1>4

\* The steps that leave the pages and the query as they are.
LEMMA QueryStays ==
    ASSUME SessionInv, UNCHANGED ui,
           \/ UNCHANGED <<cookie, out>>
           \/ Expire
           \/ SignOut
    PROVE  cookie' \in Cookie /\ QueryInv(ui', cookie', out')
<1>0. ui \in Ui /\ cookie \in Cookie /\ QueryInv(ui, cookie, out) /\ {Nobody, Expired} \cap User = {}
    BY SessionTypes, SessionAssumption DEF SessionInv, SessionAssumption
<1>1. CASE UNCHANGED <<cookie, out>>
    BY <1>0, <1>1
<1>2. CASE Expire
    <2>1. cookie' = Expired /\ Nobody # Expired /\ Expired \notin User /\ out' = out
        BY <1>0, <1>2, SessionAssumption DEF Expire, SessionAssumption
    <2>2. QueryInv(ui, cookie', out')
        BY <1>0, <2>1 DEF QueryInv, FetchIsOfTheCookie, PagesAskAgain, DataIsOfTheCookie,
            UserIsOfTheData
    <2>3. QED
        BY <2>1, <2>2 DEF Cookie
<1>3. CASE SignOut
    BY <1>0, <1>3 DEF SignOut, Usable, Content, QueryInv, FetchIsOfTheCookie, PagesAskAgain,
        DataIsOfTheCookie, UserIsOfTheData
<1>4. QED
    BY <1>1, <1>2, <1>3

\* Panel s as submit leaves it when the answer needs nothing more.
Succeeded(s) == [panels EXCEPT ![s].call = "none", ![s].dest = Home, ![s].done = TRUE,
                              ![s].timer = TRUE]

LEMMA QueryOfTheLogin ==
    ASSUME SessionInv, NEW s \in PanelSlot, LoggedIn(s)
    PROVE  /\ cookie' \in User /\ owed' = FALSE /\ UNCHANGED out /\ panels[s].call # "none"
           /\ ui' \in Ui /\ QueryInv(ui', cookie', out') /\ (ui.locked => ui'.locked)
           /\ \/ Rendered(ui', [panels EXCEPT ![s].call = "refetch"])
              \/ Rendered(ui', Succeeded(s))
<1>0. /\ "/login" \notin Page /\ Home \in Page /\ Nobody \notin User /\ Expired \notin User
    BY SessionAssumption DEF SessionAssumption
<1>1. /\ ui \in Ui /\ cookie \in Cookie /\ QueryInv(ui, cookie, out)
      /\ panels \in [PanelSlot -> Panel] /\ out \in {"no", "logout", "refetch"}
    BY SessionTypes DEF SessionInv
<1> DEFINE id == panels[s].id
           u == [ui EXCEPT !.user = id, !.remembered = id, !.stale = TRUE,
                           !.overtaken = Overtaken(ui)]
<1>2. /\ panels[s].call \in {"mfa", "login"} /\ cookie' = id /\ UNCHANGED out /\ owed' = FALSE
      /\ IF Gated(ui)
         THEN ScreenWith(RefetchSession(u, id), [panels EXCEPT ![s].call = "refetch"])
         ELSE Leave(s, u, id)
    BY Zenon DEF LoggedIn
<1>3. panels[s] \in Panel /\ panels[s].dest \in Page
    BY <1>1 DEF Panel
<1>4. id \in User /\ id \in Cookie
    <2>1. id # Nobody
        BY <1>2 DEF SessionInv, OverlayInv, PanelsAreLeft
    <2>2. id \in Someone
        BY <1>3 DEF Panel
    <2>3. QED
        BY <2>1, <2>2 DEF Someone, Cookie
<1>5. out = "no"
    BY <1>1, <1>2 DEF SessionInv, OverlayInv
<1> HIDE DEF id
<1>6. /\ u \in Ui /\ u.page = ui.page /\ u.data = ui.data /\ u.error = ui.error
      /\ u.asking = ui.asking /\ u.by = ui.by /\ u.stale /\ u.locked = ui.locked /\ u.user = id
      /\ u.overtaken = Overtaken(ui)
    <2>1. u \in Ui
        <3>1. id \in Someone /\ Overtaken(ui) \in BOOLEAN
            BY <1>1, <1>4, OvertakenIsTyped DEF Someone
        <3>2. QED
            BY <1>1, <3>1 DEF Ui
    <2>2. /\ u.page = ui.page /\ u.data = ui.data /\ u.error = ui.error /\ u.asking = ui.asking
          /\ u.by = ui.by /\ u.stale /\ u.locked = ui.locked /\ u.user = id
        BY <1>1 DEF Ui
    <2>3. u.overtaken = Overtaken(ui)
        BY <1>1 DEF Ui
    <2>4. QED
        BY <2>1, <2>2, <2>3
<1> HIDE DEF u
<1>7. CASE Gated(ui)
    <2> DEFINE r == RefetchSession(u, id)
    <2>1. ui' = r /\ Rendered(ui', [panels EXCEPT ![s].call = "refetch"])
        BY <1>2, <1>7 DEF ScreenWith
    <2>2. /\ r \in Ui /\ r.asking /\ r.data = u.data /\ r.page = u.page /\ r.stale = u.stale
          /\ r.locked = u.locked /\ r.user = u.user /\ r.error = u.error
          /\ u.asking /\ u.data = Nobody => r = u
          /\ ~(u.asking /\ u.data = Nobody) => r.by = id
        <3>1. u \in Ui /\ id \in Cookie
            BY <1>4, <1>6
        <3>2. QED
            BY <3>1, Refetched
    <2> HIDE DEF r
    <2>3. r.by = id \/ r.overtaken
        BY <1>6, <2>2 DEF Overtaken
    <2>4. QueryInv(r, id, "no")
        BY <1>0, <1>4, <1>6, <1>7, <2>2, <2>3 DEF QueryInv, FetchIsOfTheCookie, PagesAskAgain,
            DataIsOfTheCookie, UserIsOfTheData, Content, Gated
    <2>5. QED
        BY <1>2, <1>4, <1>5, <1>6, <2>1, <2>2, <2>4
<1>8. CASE ~Gated(ui)
    <2>1. /\ ui' = EnterGate(u, panels[s].dest, id) /\ Rendered(ui', Succeeded(s))
        BY <1>2, <1>6, <1>8 DEF Leave, ScreenWith, Gated, Succeeded
    <2>2. u.asking => u.overtaken
        BY <1>6, <1>8 DEF Overtaken
    <2>3. FetchIsOfTheCookie(u, id) /\ DataIsOfTheCookie(u, id)
        BY <1>0, <1>1, <1>4, <1>6, <2>2 DEF QueryInv, FetchIsOfTheCookie, DataIsOfTheCookie
    <2>4. ui' \in Ui /\ QueryInv(ui', id, "no") /\ (ui.locked => ui'.locked)
        BY <1>3, <1>4, <1>6, <2>1, <2>3, EnteringKeepsQuery
    <2>5. QED
        BY <1>2, <1>4, <1>5, <2>1, <2>4
<1>9. QED
    BY <1>7, <1>8

LEMMA QueryOfTheRest ==
    ASSUME SessionInv, NEW s \in PanelSlot, RefetchAwaited(s) \/ UnlockScreen(s)
    PROVE  /\ UNCHANGED <<cookie, out, owed>> /\ ui' \in Ui /\ QueryInv(ui', cookie, out)
           /\ \/ /\ panels[s].call = "refetch" /\ (ui.locked => ui'.locked)
                 /\ Rendered(ui', Succeeded(s))
              \/ panels[s].timer /\ Rendered(ui', [panels EXCEPT ![s].timer = FALSE])
<1>0. /\ "/login" \notin Page /\ Home \in Page
    BY SessionAssumption DEF SessionAssumption
<1>1. /\ ui \in Ui /\ cookie \in Cookie /\ QueryInv(ui, cookie, out)
      /\ panels \in [PanelSlot -> Panel]
    BY SessionTypes DEF SessionInv
<1>2. CASE RefetchAwaited(s)
    <2>1. /\ panels[s].call = "refetch" /\ UNCHANGED <<cookie, out, owed>>
          /\ ui' = IF Gated(ui) THEN [ui EXCEPT !.page = panels[s].dest]
                   ELSE EnterGate(ui, panels[s].dest, cookie)
          /\ Rendered(ui', Succeeded(s))
        BY <1>2, Zenon DEF RefetchAwaited, Leave, ScreenWith, Succeeded
    <2>2. panels[s].dest \in Page
        BY <1>1 DEF Panel
    <2>3. CASE Gated(ui)
        <3>1. /\ ui' \in Ui /\ Gated(ui') /\ ui'.locked = ui.locked
              /\ ui'.data = ui.data /\ ui'.error = ui.error /\ ui'.asking = ui.asking
              /\ ui'.by = ui.by /\ ui'.stale = ui.stale /\ ui'.overtaken = ui.overtaken
              /\ ui'.user = ui.user
            BY <1>0, <1>1, <2>1, <2>2, <2>3 DEF Ui, Gated
        <3>2. QueryInv(ui', cookie, out)
            BY <1>1, <2>3, <3>1, SameQuery
        <3>3. QED
            BY <2>1, <3>1, <3>2
    <2>4. CASE ~Gated(ui)
        <3>1. ui' \in Ui /\ QueryInv(ui', cookie, out) /\ (ui.locked => ui'.locked)
            BY <1>1, <2>1, <2>2, <2>4, EnteringKeepsQuery DEF QueryInv
        <3>2. QED
            BY <2>1, <3>1
    <2>5. QED
        BY <2>3, <2>4
<1>3. CASE UnlockScreen(s)
    <2>1. /\ panels[s].timer /\ UNCHANGED <<cookie, out, owed>>
          /\ ui' = [ui EXCEPT !.locked = FALSE]
          /\ Rendered(ui', [panels EXCEPT ![s].timer = FALSE])
        BY <1>3, Zenon DEF UnlockScreen, ScreenWith
    <2>2. /\ ui' \in Ui /\ ui'.page = ui.page
          /\ ui'.data = ui.data /\ ui'.error = ui.error /\ ui'.asking = ui.asking
          /\ ui'.by = ui.by /\ ui'.stale = ui.stale /\ ui'.overtaken = ui.overtaken
          /\ ui'.user = ui.user
        BY <1>1, <2>1 DEF Ui
    <2>3. QueryInv(ui', cookie, out)
        BY <1>1, <2>2, SameQuery DEF Gated
    <2>4. QED
        BY <2>1, <2>2, <2>3
<1>4. QED
    BY <1>2, <1>3

LEMMA QueryOfTheReload ==
    ASSUME SessionInv, Reload
    PROVE  /\ UNCHANGED <<cookie, owed>> /\ out' = "no" /\ ui' \in Ui
           /\ QueryInv(ui', cookie, "no") /\ (ui.locked => ui'.locked)
<1> DEFINE u == [ui EXCEPT !.user = Nobody, !.selected = Nobody, !.data = Nobody,
                           !.error = "none", !.asking = FALSE, !.by = Nobody, !.stale = TRUE]
<1>0. Nobody \notin User
    BY SessionAssumption DEF SessionAssumption
<1>1. ui \in Ui /\ cookie \in Cookie
    BY SessionTypes DEF SessionInv
<1>2. /\ u \in Ui /\ ~u.asking /\ u.by = Nobody /\ u.data = Nobody /\ u.error = "none" /\ u.stale
      /\ u.locked = ui.locked /\ u.page = ui.page
    BY <1>1 DEF Ui, Someone
<1>3. /\ ui' = IF Gated(ui) THEN EnterGate(u, ui.page, cookie)
               ELSE IF ui.page = "/login" THEN LoginPage(u, ui.from) ELSE u
      /\ out' = "no" /\ UNCHANGED <<cookie, owed>>
    BY Zenon DEF Reload
<1> HIDE DEF u
<1>4. CASE Gated(ui)
    <2>1. ui.page \in Page
        BY <1>1, <1>4 DEF Ui, Gated
    <2>2. FetchIsOfTheCookie(u, cookie) /\ DataIsOfTheCookie(u, cookie)
        BY <1>0, <1>2 DEF FetchIsOfTheCookie, DataIsOfTheCookie
    <2>3. ui' \in Ui /\ QueryInv(ui', cookie, "no") /\ (ui.locked => ui'.locked)
        BY <1>1, <1>2, <1>3, <1>4, <2>1, <2>2, EnteringKeepsQuery
    <2>4. QED
        BY <1>3, <2>3
<1>5. CASE ~Gated(ui)
    <2>1. ui.from \in Page
        BY <1>1 DEF Ui
    <2>2. /\ ui' \in Ui /\ ~Gated(ui') /\ (ui.locked => ui'.locked) /\ ~ui'.asking
          /\ ui'.by = Nobody /\ ui'.data = Nobody
        <3>1. CASE ui.page = "/login"
            BY <1>2, <1>3, <1>5, <2>1, <3>1, OnLoginPage
        <3>2. CASE ui.page # "/login"
            BY <1>2, <1>3, <1>5, <3>2 DEF Gated
        <3>3. QED
            BY <3>1, <3>2
    <2>3. QueryInv(ui', cookie, "no")
        BY <1>0, <2>2 DEF QueryInv, FetchIsOfTheCookie, PagesAskAgain, DataIsOfTheCookie,
            UserIsOfTheData, Content
    <2>4. QED
        BY <1>3, <2>2, <2>3
<1>6. QED
    BY <1>4, <1>5

-----------------------------------------------------------------------------
(* The overlay and its panels. *)

LEMMA KeptPanels ==
    ASSUME NEW ps \in [PanelSlot -> Panel], NEW on
    PROVE  /\ Kept(ps, on) \in [PanelSlot -> Panel]
           /\ \A s \in PanelSlot :
                 \/ Kept(ps, on)[s] = ps[s]
                 \/ s # on /\ Kept(ps, on)[s] = FreePanel
<1>1. FreePanel \in Panel
    BY SessionAssumption DEF SessionAssumption, FreePanel, Panel, Someone
<1>2. QED
    BY <1>1 DEF Kept

LEMMA FreePanelIsFree ==
    /\ FreePanel.call = "none" /\ ~FreePanel.timer /\ ~FreePanel.left
BY DEF FreePanel

\* A change of the stores: the panel on the screen is nobody's who was left, and
\* one that leaves it with a request is; none begins to wait.
LEMMA RenderedPanels ==
    ASSUME NEW u \in Ui, NEW ps \in [PanelSlot -> Panel], Rendered(u, ps),
           shown \in 0..MaxPanels, PanelsAreLeft(ps, shown)
    PROVE  /\ panels' \in [PanelSlot -> Panel] /\ shown' \in 0..MaxPanels
           /\ ~u.locked => shown' = 0
           /\ PanelsAreLeft(panels', shown')
           /\ OnlyLeftOnes(ps) => OnlyLeftOnes(panels')
           /\ \A s \in PanelSlot :
                 (panels'[s].timer => ps[s].timer) /\ panels'[s].call \in {"none", ps[s].call}
<1> DEFINE t == Target(u)
           old == IF shown = 0 THEN ps
                  ELSE [ps EXCEPT ![shown].left = ps[shown].call # "none"]
<1>0. MaxPanels \in Nat /\ (shown # 0 => shown \in PanelSlot)
    BY SessionAssumption DEF SessionAssumption, PanelSlot
<1>1. t \in Someone /\ (~u.locked => t = Nobody)
    BY DEF Target, Ui, Someone
<1>2. /\ old \in [PanelSlot -> Panel]
      /\ \A s \in PanelSlot :
            /\ old[s].id = ps[s].id /\ old[s].call = ps[s].call /\ old[s].timer = ps[s].timer
            /\ s # shown => old[s] = ps[s]
            /\ s = shown /\ old[s].call # "none" => old[s].left
            /\ ps[s].left => s # shown
    <2>1. CASE shown = 0
        BY <1>0, <2>1 DEF PanelsAreLeft, PanelSlot
    <2>2. CASE shown # 0
        <3>1. shown \in PanelSlot /\ ps[shown] \in Panel
            BY <1>0, <2>2
        <3>2. (ps[shown].call # "none") \in BOOLEAN
            OBVIOUS
        <3>3. [ps[shown] EXCEPT !.left = ps[shown].call # "none"] \in Panel
            BY <3>1, <3>2 DEF Panel
        <3>4. old = [ps EXCEPT ![shown] = [ps[shown] EXCEPT !.left = ps[shown].call # "none"]]
            BY <2>2, <3>1
        <3>5. old \in [PanelSlot -> Panel]
            BY <3>1, <3>3, <3>4
        <3>6. \A s \in PanelSlot : s # shown => old[s] = ps[s]
            BY <3>1, <3>4
        <3>7. old[shown] = [ps[shown] EXCEPT !.left = ps[shown].call # "none"]
            BY <3>1, <3>4
        <3> HIDE DEF old
        <3>8. /\ old[shown].id = ps[shown].id /\ old[shown].call = ps[shown].call
              /\ old[shown].timer = ps[shown].timer
              /\ old[shown].call # "none" => old[shown].left
            BY <3>1, <3>7 DEF Panel
        <3>9. QED
            BY <2>2, <3>1, <3>5, <3>6, <3>8 DEF PanelsAreLeft
    <2>3. QED
        BY <2>1, <2>2
<1>3. OnlyLeftOnes(ps) => OnlyLeftOnes(old)
    BY <1>2 DEF OnlyLeftOnes
<1> HIDE DEF t, old
<1>4. CASE t = Nobody
    <2>1. shown' = 0 /\ panels' = Kept(old, 0)
        BY <1>4 DEF Rendered, t, old
    <2>2. /\ panels' \in [PanelSlot -> Panel]
          /\ \A s \in PanelSlot : panels'[s] = old[s] \/ panels'[s] = FreePanel
        BY <1>2, <2>1, KeptPanels
    <2>3. PanelsAreLeft(panels', shown')
        BY <1>2, <2>1, <2>2, FreePanelIsFree DEF PanelsAreLeft
    <2>4. OnlyLeftOnes(ps) => OnlyLeftOnes(panels')
        BY <1>3, <2>2, FreePanelIsFree DEF OnlyLeftOnes
    <2>5. QED
        BY <1>0, <1>2, <2>1, <2>2, <2>3, <2>4, FreePanelIsFree
<1>5. CASE t # Nobody /\ shown # 0 /\ ps[shown].id = t
    <2>1. shown' = shown /\ panels' = Kept(ps, shown)
        BY <1>5 DEF Rendered, t
    <2>2. /\ panels' \in [PanelSlot -> Panel]
          /\ \A s \in PanelSlot :
                panels'[s] = ps[s] \/ (s # shown /\ panels'[s] = FreePanel)
        BY <2>1, KeptPanels
    <2>3. PanelsAreLeft(panels', shown')
        BY <1>0, <2>1, <2>2, FreePanelIsFree DEF PanelsAreLeft
    <2>4. OnlyLeftOnes(ps) => OnlyLeftOnes(panels')
        BY <2>2, FreePanelIsFree DEF OnlyLeftOnes
    <2>5. QED
        BY <1>1, <1>5, <2>1, <2>2, <2>3, <2>4, FreePanelIsFree
<1>6. CASE t # Nobody /\ ~(shown # 0 /\ ps[shown].id = t)
    <2>1. PICK s \in PanelSlot \ {shown} :
              /\ shown' = s
              /\ panels' = Kept([old EXCEPT ![s] = [FreePanel EXCEPT !.id = t]], s)
        BY <1>6 DEF Rendered, t, old
    <2> DEFINE new == [FreePanel EXCEPT !.id = t]
               among == [old EXCEPT ![s] = new]
    <2>2. new \in Panel /\ new.id = t /\ new.call = "none" /\ ~new.timer /\ ~new.left
        BY <1>1, SessionAssumption DEF SessionAssumption, FreePanel, Panel
    <2> HIDE DEF new
    <2>3. /\ among \in [PanelSlot -> Panel] /\ among[s] = new
          /\ \A r \in PanelSlot \ {s} : among[r] = old[r]
        BY <1>2, <2>2
    <2>4. panels' = Kept(among, s)
        BY <2>1 DEF new
    <2> HIDE DEF among
    <2>5. /\ panels' \in [PanelSlot -> Panel] /\ panels'[s] = new
          /\ \A r \in PanelSlot \ {s} : panels'[r] = old[r] \/ panels'[r] = FreePanel
        BY <2>3, <2>4, KeptPanels
    <2>6. PanelsAreLeft(panels', shown')
        <3>1. ~panels'[s].left /\ panels'[s].id # Nobody /\ panels'[s].call = "none"
            BY <1>6, <2>2, <2>5
        <3>2. ASSUME NEW r \in PanelSlot \ {s}, panels'[r].call # "none"
              PROVE  panels'[r].id # Nobody /\ panels'[r].left
            <4>1. panels'[r] = old[r]
                BY <2>5, <3>2, FreePanelIsFree
            <4>2. CASE r = shown
                BY <1>2, <3>2, <4>1, <4>2 DEF PanelsAreLeft
            <4>3. CASE r # shown
                BY <1>2, <3>2, <4>1, <4>3 DEF PanelsAreLeft
            <4>4. QED
                BY <4>2, <4>3
        <3>3. QED
            BY <2>1, <3>1, <3>2, Zenon DEF PanelsAreLeft
    <2>7. OnlyLeftOnes(ps) => OnlyLeftOnes(panels')
        BY <1>3, <2>2, <2>5, FreePanelIsFree DEF OnlyLeftOnes
    <2>8. QED
        <3>1. shown' \in 0..MaxPanels /\ (~u.locked => shown' = 0)
            BY <1>0, <1>1, <1>6, <2>1 DEF PanelSlot
        <3>2. ASSUME NEW r \in PanelSlot
              PROVE  (panels'[r].timer => ps[r].timer) /\ panels'[r].call \in {"none", ps[r].call}
            BY <1>2, <2>2, <2>5, FreePanelIsFree
        <3>3. QED
            BY <2>5, <2>6, <2>7, <3>1, <3>2
<1>7. QED
    BY <1>4, <1>5, <1>6

\* The overlay shown again, of panels ps that respect what is owed.
LEMMA ShowingKeepsOverlay ==
    ASSUME SessionInv, ui' \in Ui, NEW ps \in [PanelSlot -> Panel], Rendered(ui', ps),
           PanelsAreLeft(ps, shown), owed' => OnlyLeftOnes(ps),
           out' # "no" => \A s \in PanelSlot : ps[s].call = "none"
    PROVE  panels' \in [PanelSlot -> Panel] /\ shown' \in 0..MaxPanels /\ OverlayInv'
<1>1. shown \in 0..MaxPanels
    BY SessionTypes DEF SessionInv
<1>2. \A u \in Ui : Rendered(u, ps) =>
           /\ panels' \in [PanelSlot -> Panel] /\ shown' \in 0..MaxPanels
           /\ ~u.locked => shown' = 0
           /\ PanelsAreLeft(panels', shown')
           /\ OnlyLeftOnes(ps) => OnlyLeftOnes(panels')
           /\ \A s \in PanelSlot : panels'[s].call \in {"none", ps[s].call}
    BY <1>1, RenderedPanels, Zenon
<1>3. /\ panels' \in [PanelSlot -> Panel] /\ shown' \in 0..MaxPanels
      /\ ~ui'.locked => shown' = 0
      /\ PanelsAreLeft(panels', shown')
      /\ OnlyLeftOnes(ps) => OnlyLeftOnes(panels')
      /\ \A s \in PanelSlot : panels'[s].call \in {"none", ps[s].call}
    BY <1>2, Zenon
<1>4. PanelsAreLeft(panels, shown)' /\ (owed' => OnlyLeftOnes(panels)')
    BY <1>3, Zenon
<1>5. out' # "no" => \A s \in PanelSlot : panels'[s].call = "none"
    BY <1>3
<1>6. QED
    BY <1>3, <1>4, <1>5, Zenon DEF OverlayInv

LEMMA ScreenKeepsInv ==
    ASSUME SessionInv,
           \/ SessionArrives \/ FocusRefetch \/ Collect \/ SelectUser \/ SwitchUser
           \/ Lock \/ Navigate \/ Logout \/ SignedOut \/ Back \/ OpenOnboarding \/ LeaveOnboarding
    PROVE  SessionInv' /\ (ui.locked => ui'.locked \/ ui'.page = "/onboarding")
<1>1. /\ cookie' \in Cookie /\ out' \in {"no", "logout", "refetch"} /\ ui' \in Ui
      /\ QueryInv(ui', cookie', out') /\ Rendered(ui', panels)
      /\ ui.locked => ui'.locked \/ ui'.page = "/onboarding"
      /\ out' # "no" => out # "no"
    <2>1. cookie \in Cookie /\ out \in {"no", "logout", "refetch"}
        BY SessionTypes DEF SessionInv
    <2>2. CASE SessionArrives
        BY <2>1, <2>2, QueryArrives
    <2>3. CASE \/ FocusRefetch \/ Collect \/ SelectUser \/ SwitchUser \/ Lock \/ Navigate
               \/ OpenOnboarding
        BY <2>1, <2>3, QueryOfThePage
    <2>4. CASE Logout \/ SignedOut \/ Back \/ LeaveOnboarding
        BY <2>1, <2>4, QueryOfTheSignOut
    <2>5. QED
        BY <2>2, <2>3, <2>4
<1>2. panels \in [PanelSlot -> Panel] /\ PanelsAreLeft(panels, shown) /\ owed \in BOOLEAN
    BY SessionTypes DEF SessionInv, OverlayInv
<1>3. owed' \in BOOLEAN /\ (owed' => OnlyLeftOnes(panels))
    <2>1. CASE Lock
        <3>1. ~ui.locked /\ \A s \in PanelSlot : ~panels[s].timer
            BY <2>1 DEF Lock, Usable
        <3>2. shown = 0
            BY <3>1 DEF SessionInv, OverlayInv
        <3>3. \A s \in PanelSlot : s # 0
            BY DEF PanelSlot
        <3>4. OnlyLeftOnes(panels)
            BY <1>2, <3>1, <3>2, <3>3 DEF PanelsAreLeft, OnlyLeftOnes
        <3>5. QED
            BY <2>1, <3>4, Zenon DEF Lock
    <2>2. CASE ~Lock
        <3>1. owed' = owed
            BY <2>2, Zenon DEF SessionArrives, FocusRefetch, Collect, SelectUser, SwitchUser,
                Navigate, Logout, SignedOut, Back, OpenOnboarding, LeaveOnboarding
        <3>2. QED
            BY <1>2, <3>1, Zenon DEF SessionInv, OverlayInv
    <2>3. QED
        BY <2>1, <2>2
<1>4. out' # "no" => \A s \in PanelSlot : panels[s].call = "none"
    BY <1>1, Zenon DEF SessionInv, OverlayInv
<1>5. panels' \in [PanelSlot -> Panel] /\ shown' \in 0..MaxPanels /\ OverlayInv'
    BY <1>1, <1>2, <1>3, <1>4, ShowingKeepsOverlay
<1>6. SessionTypeOK'
    BY <1>1, <1>3, <1>5, TypesKept, Zenon
<1>7. QED
    BY <1>1, <1>5, <1>6, Zenon DEF SessionInv

\* The fields of a panel that an answer changes.
LEMMA ChangedPanel ==
    ASSUME NEW ps \in [PanelSlot -> Panel], NEW s \in PanelSlot, NEW p \in Panel, p.id = ps[s].id,
           p.left = ps[s].left, PanelsAreLeft(ps, shown), p.call = "none" \/ ps[s].call # "none"
                                                         \/ s = shown
    PROVE  /\ [ps EXCEPT ![s] = p] \in [PanelSlot -> Panel]
           /\ PanelsAreLeft([ps EXCEPT ![s] = p], shown)
<1> DEFINE qs == [ps EXCEPT ![s] = p]
<1>1. qs \in [PanelSlot -> Panel] /\ qs[s] = p /\ \A r \in PanelSlot \ {s} : qs[r] = ps[r]
    OBVIOUS
<1>2. shown # 0 => ~qs[shown].left /\ qs[shown].id # Nobody
    <2>1. CASE shown = s
        BY <1>1, <2>1, Zenon DEF PanelsAreLeft
    <2>2. CASE shown # s
        <3>1. qs[shown] = ps[shown]
            BY <2>2
        <3>2. QED
            BY <3>1, Zenon DEF PanelsAreLeft
    <2>3. QED
        BY <2>1, <2>2
<1> HIDE DEF qs
<1>3. ASSUME NEW r \in PanelSlot, qs[r].call # "none"
      PROVE  qs[r].id # Nobody /\ (r # shown => qs[r].left)
    <2>1. CASE r = s
        BY <1>1, <1>2, <1>3, <2>1 DEF PanelsAreLeft, PanelSlot
    <2>2. CASE r # s
        <3>1. qs[r] = ps[r]
            BY <1>1, <2>2
        <3>2. QED
            BY <1>3, <3>1 DEF PanelsAreLeft
    <2>3. QED
        BY <2>1, <2>2
<1>4. PanelsAreLeft(qs, shown)
    BY <1>2, <1>3, Zenon DEF PanelsAreLeft
<1>5. QED
    BY <1>1, <1>4 DEF qs

\* A request answered with success.
LEMMA SucceededPanel ==
    ASSUME panels \in [PanelSlot -> Panel], NEW s \in PanelSlot, PanelsAreLeft(panels, shown)
    PROVE  /\ Succeeded(s) \in [PanelSlot -> Panel] /\ PanelsAreLeft(Succeeded(s), shown)
           /\ Succeeded(s)[s].call = "none" /\ Succeeded(s)[s].left = panels[s].left
           /\ \A r \in PanelSlot \ {s} : Succeeded(s)[r] = panels[r]
<1> DEFINE p == [panels[s] EXCEPT !.call = "none", !.dest = Home, !.done = TRUE, !.timer = TRUE]
<1>1. p \in Panel /\ p.id = panels[s].id /\ p.left = panels[s].left /\ p.call = "none"
    BY SessionAssumption DEF SessionAssumption, Panel
<1>2. Succeeded(s) = [panels EXCEPT ![s] = p]
    BY DEF Succeeded
<1> HIDE DEF p
<1>3. /\ [panels EXCEPT ![s] = p] \in [PanelSlot -> Panel]
      /\ PanelsAreLeft([panels EXCEPT ![s] = p], shown)
    BY <1>1, ChangedPanel
<1>4. /\ Succeeded(s)[s] = p
      /\ \A r \in PanelSlot \ {s} : Succeeded(s)[r] = panels[r]
    BY <1>2
<1>5. QED
    BY <1>1, <1>2, <1>3, <1>4

LEMMA AcceptingKeepsInv ==
    ASSUME SessionInv, NEW s \in PanelSlot, LoggedIn(s) \/ RefetchAwaited(s) \/ UnlockScreen(s)
    PROVE  /\ SessionInv'
           /\ owed /\ ui.locked /\ ~ui'.locked =>
                 panels[s].left /\ panels[s].timer /\ ~panels'[s].timer
<1>0. /\ cookie \in Cookie /\ out \in {"no", "logout", "refetch"} /\ owed \in BOOLEAN
      /\ panels \in [PanelSlot -> Panel] /\ panels[s] \in Panel /\ PanelsAreLeft(panels, shown)
      /\ shown \in 0..MaxPanels
      /\ out # "no" => \A r \in PanelSlot : panels[r].call = "none"
    BY SessionTypes DEF SessionInv, OverlayInv
<1>1. CASE LoggedIn(s)
    <2> DEFINE ps == [panels EXCEPT ![s].call = "refetch"]
    <2>1. /\ cookie' \in User /\ owed' = FALSE /\ UNCHANGED out /\ panels[s].call # "none"
          /\ ui' \in Ui /\ QueryInv(ui', cookie', out') /\ (ui.locked => ui'.locked)
          /\ Rendered(ui', ps) \/ Rendered(ui', Succeeded(s))
        BY <1>1, QueryOfTheLogin
    <2>2. out' = "no"
        BY <1>0, <2>1
    <2>3. ps \in [PanelSlot -> Panel] /\ PanelsAreLeft(ps, shown)
        <3> DEFINE p == [panels[s] EXCEPT !.call = "refetch"]
        <3>1. p \in Panel /\ p.id = panels[s].id /\ p.left = panels[s].left
            BY <1>0 DEF Panel
        <3>2. ps = [panels EXCEPT ![s] = p]
            BY <1>0
        <3> HIDE DEF p
        <3>3. QED
            BY <1>0, <2>1, <3>1, <3>2, ChangedPanel
    <2> HIDE DEF ps
    <2>4. panels' \in [PanelSlot -> Panel] /\ shown' \in 0..MaxPanels /\ OverlayInv'
        BY <1>0, <2>1, <2>2, <2>3, SucceededPanel, ShowingKeepsOverlay
    <2>5. SessionTypeOK'
        <3>1. cookie' \in Cookie /\ owed' \in BOOLEAN /\ out' \in {"no", "logout", "refetch"}
            BY <2>1, <2>2 DEF Cookie, Someone
        <3>2. QED
            BY <2>1, <2>4, <3>1, TypesKept, Zenon
    <2>6. QED
        BY <2>1, <2>4, <2>5, Zenon DEF SessionInv
<1>2. CASE RefetchAwaited(s) \/ UnlockScreen(s)
    <2> DEFINE ps == [panels EXCEPT ![s].timer = FALSE]
    <2>1. /\ UNCHANGED <<cookie, out, owed>> /\ ui' \in Ui /\ QueryInv(ui', cookie, out)
          /\ \/ /\ panels[s].call = "refetch" /\ (ui.locked => ui'.locked)
                /\ Rendered(ui', Succeeded(s))
             \/ panels[s].timer /\ Rendered(ui', ps)
        BY <1>2, QueryOfTheRest
    <2>2. CASE /\ panels[s].call = "refetch" /\ (ui.locked => ui'.locked)
               /\ Rendered(ui', Succeeded(s))
        <3>1. /\ Succeeded(s) \in [PanelSlot -> Panel] /\ PanelsAreLeft(Succeeded(s), shown)
              /\ Succeeded(s)[s].call = "none" /\ Succeeded(s)[s].left = panels[s].left
              /\ \A r \in PanelSlot \ {s} : Succeeded(s)[r] = panels[r]
            BY <1>0, SucceededPanel
        <3>2. owed => OnlyLeftOnes(Succeeded(s))
            <4> SUFFICES ASSUME owed, NEW r \in PanelSlot,
                                Succeeded(s)[r].timer \/ Succeeded(s)[r].call = "refetch"
                         PROVE  Succeeded(s)[r].left
                BY Zenon DEF OnlyLeftOnes
            <4>1. OnlyLeftOnes(panels)
                BY Zenon DEF SessionInv, OverlayInv
            <4>2. CASE r = s
                <5>1. panels[s].left
                    BY <2>2, <4>1, Zenon DEF OnlyLeftOnes
                <5>2. QED
                    BY <3>1, <4>2, <5>1, Zenon
            <4>3. CASE r # s
                BY <3>1, <4>1, <4>3 DEF OnlyLeftOnes
            <4>4. QED
                BY <4>2, <4>3
        <3>3. out = "no"
            BY <1>0, <2>2
        <3>4. panels' \in [PanelSlot -> Panel] /\ shown' \in 0..MaxPanels /\ OverlayInv'
            BY <2>1, <2>2, <3>1, <3>2, <3>3, ShowingKeepsOverlay
        <3>5. SessionTypeOK'
            BY <1>0, <2>1, <3>4, TypesKept, Zenon
        <3>6. QED
            BY <2>1, <2>2, <3>4, <3>5, Zenon DEF SessionInv
    <2>3. CASE panels[s].timer /\ Rendered(ui', ps)
        <3> DEFINE p == [panels[s] EXCEPT !.timer = FALSE]
        <3>1. /\ p \in Panel /\ p.id = panels[s].id /\ p.left = panels[s].left
              /\ p.call = panels[s].call /\ ~p.timer
            BY <1>0 DEF Panel
        <3>2. ps = [panels EXCEPT ![s] = p]
            BY <1>0
        <3> HIDE DEF p
        <3>3. ps[s] = p /\ \A r \in PanelSlot \ {s} : ps[r] = panels[r]
            BY <1>0, <3>2
        <3>4. ps \in [PanelSlot -> Panel] /\ PanelsAreLeft(ps, shown)
            <4>1. p.call = "none" \/ panels[s].call # "none"
                BY <3>1
            <4>2. QED
                BY <1>0, <3>1, <3>2, <4>1, ChangedPanel
        <3> HIDE DEF ps
        <3>5. owed => OnlyLeftOnes(ps)
            <4> SUFFICES ASSUME owed, NEW r \in PanelSlot, ps[r].timer \/ ps[r].call = "refetch"
                         PROVE  ps[r].left
                BY Zenon DEF OnlyLeftOnes
            <4>1. OnlyLeftOnes(panels)
                BY Zenon DEF SessionInv, OverlayInv
            <4>2. CASE r = s
                <5>1. panels[s].left
                    BY <2>3, <4>1, Zenon DEF OnlyLeftOnes
                <5>2. QED
                    BY <3>1, <3>3, <4>2, <5>1, Zenon
            <4>3. CASE r # s
                BY <3>3, <4>1, <4>3 DEF OnlyLeftOnes
            <4>4. QED
                BY <4>2, <4>3
        <3>6. out' # "no" => \A r \in PanelSlot : ps[r].call = "none"
            BY <1>0, <2>1, <3>1, <3>3
        <3>7. panels' \in [PanelSlot -> Panel] /\ shown' \in 0..MaxPanels /\ OverlayInv'
            BY <2>1, <2>3, <3>4, <3>5, <3>6, ShowingKeepsOverlay
        <3>8. SessionTypeOK'
            BY <1>0, <2>1, <3>7, TypesKept, Zenon
        <3>9. owed => panels[s].left
            BY <2>3, Zenon DEF SessionInv, OverlayInv, OnlyLeftOnes
        <3>10. ~panels'[s].timer
            <4>1. \A u \in Ui : Rendered(u, ps) => \A r \in PanelSlot : panels'[r].timer => ps[r].timer
                BY <1>0, <3>4, RenderedPanels, Zenon
            <4>2. panels'[s].timer => ps[s].timer
                BY <2>1, <2>3, <4>1, Zenon
            <4>3. QED
                BY <3>1, <3>3, <4>2, Zenon
        <3>11. QED
            BY <2>1, <2>3, <3>7, <3>8, <3>9, <3>10, Zenon DEF SessionInv
    <2>4. QED
        BY <2>1, <2>2, <2>3
<1>3. QED
    BY <1>1, <1>2

LEMMA KeptKeepsInv ==
    ASSUME shown \in 0..MaxPanels, NEW ps \in [PanelSlot -> Panel], PanelsAreLeft(ps, shown)
    PROVE  /\ Kept(ps, shown) \in [PanelSlot -> Panel] /\ PanelsAreLeft(Kept(ps, shown), shown)
           /\ OnlyLeftOnes(ps) => OnlyLeftOnes(Kept(ps, shown))
           /\ \A s \in PanelSlot : Kept(ps, shown)[s].call \in {"none", ps[s].call}
<1> DEFINE qs == Kept(ps, shown)
<1>1. /\ qs \in [PanelSlot -> Panel]
      /\ \A s \in PanelSlot : qs[s] = ps[s] \/ (s # shown /\ qs[s] = FreePanel)
    BY KeptPanels
<1>2. shown # 0 => shown \in PanelSlot
    BY SessionAssumption DEF SessionAssumption, PanelSlot
<1> HIDE DEF qs
<1>3. shown # 0 => ~qs[shown].left /\ qs[shown].id # Nobody
    <2>1. shown # 0 => qs[shown] = ps[shown]
        BY <1>1, <1>2
    <2>2. QED
        BY <2>1, Zenon DEF PanelsAreLeft
<1>4. PanelsAreLeft(qs, shown)
    BY <1>1, <1>3, FreePanelIsFree DEF PanelsAreLeft
<1>5. OnlyLeftOnes(ps) => OnlyLeftOnes(qs)
    BY <1>1, FreePanelIsFree DEF OnlyLeftOnes
<1>6. QED
    BY <1>1, <1>4, <1>5, FreePanelIsFree DEF qs

\* A request sent, refused, or answered with a challenge or the unlock.
LEMMA AskingKeepsInv ==
    ASSUME SessionInv, NEW s \in PanelSlot,
           (Submit /\ s = shown) \/ Refused(s) \/ Unlocked(s) \/ Challenged(s)
    PROVE  SessionInv' /\ UNCHANGED ui
<1>0. /\ cookie \in Cookie /\ out \in {"no", "logout", "refetch"} /\ owed \in BOOLEAN /\ ui \in Ui
      /\ panels \in [PanelSlot -> Panel] /\ panels[s] \in Panel /\ PanelsAreLeft(panels, shown)
      /\ shown \in 0..MaxPanels /\ Home \in Page /\ QueryInv(ui, cookie, out)
      /\ out # "no" => \A r \in PanelSlot : panels[r].call = "none"
    BY SessionTypes, SessionAssumption DEF SessionInv, OverlayInv, SessionAssumption
<1>1. /\ UNCHANGED <<cookie, ui, shown, out>> /\ owed' \in {owed, FALSE} /\ out = "no"
      /\ (owed' => ~Unlocked(s))
    <2>1. CASE Submit
        BY <2>1, <1>0, Zenon DEF Submit, Unlocked
    <2>2. CASE Refused(s)
        BY <2>2, <1>0 DEF Refused, Unlocked
    <2>3. CASE Unlocked(s)
        BY <2>3, <1>0 DEF Unlocked
    <2>4. CASE Challenged(s)
        BY <2>4, <1>0 DEF Challenged, Unlocked
    <2>5. QED
        BY <2>1, <2>2, <2>3, <2>4
<1> DEFINE With(p) == [panels EXCEPT ![s] = p]
<1>2. \E p \in Panel :
          /\ panels' = With(p) \/ panels' = Kept(With(p), shown)
          /\ p.id = panels[s].id /\ p.left = panels[s].left /\ p.call # "refetch"
          /\ p.call = "none" \/ s = shown
          /\ p.timer => panels[s].timer \/ Unlocked(s)
    <2>1. CASE Submit /\ s = shown
        <3> DEFINE call == IF ui.user # Nobody THEN "unlock"
                           ELSE IF panels[shown].challenge THEN "mfa" ELSE "login"
                   p == [panels[s] EXCEPT !.call = call, !.dest = ui.from]
        <3>1. call \in {"unlock", "mfa", "login"} /\ ui.from \in Page
            BY <1>0 DEF Ui
        <3>2. panels' = With(p)
            BY <1>0, <2>1 DEF Submit
        <3> HIDE DEF call
        <3>3. /\ p \in Panel /\ p.id = panels[s].id /\ p.left = panels[s].left
              /\ p.call # "refetch" /\ (p.timer => panels[s].timer)
            BY <1>0, <3>1 DEF Panel
        <3>4. QED
            BY <2>1, <3>2, <3>3
    <2>2. CASE Refused(s)
        <3> DEFINE p == [panels[s] EXCEPT !.call = "none", !.dest = Home]
        <3>1. panels' = Kept(With(p), shown)
            BY <1>0, <2>2 DEF Refused
        <3>2. /\ p \in Panel /\ p.id = panels[s].id /\ p.left = panels[s].left
              /\ p.call = "none" /\ (p.timer => panels[s].timer)
            BY <1>0 DEF Panel
        <3>3. QED
            BY <3>1, <3>2
    <2>3. CASE Unlocked(s)
        <3> DEFINE p == [panels[s] EXCEPT !.call = "none", !.dest = Home, !.done = TRUE, !.timer = TRUE]
        <3>1. panels' = With(p)
            BY <1>0, <2>3 DEF Unlocked
        <3>2. /\ p \in Panel /\ p.id = panels[s].id /\ p.left = panels[s].left
              /\ p.call = "none"
            BY <1>0 DEF Panel
        <3>3. QED
            BY <2>3, <3>1, <3>2
    <2>4. CASE Challenged(s)
        <3> DEFINE p == [panels[s] EXCEPT !.call = "none", !.dest = Home, !.challenge = TRUE]
        <3>1. panels' = Kept(With(p), shown)
            BY <1>0, <2>4 DEF Challenged
        <3>2. /\ p \in Panel /\ p.id = panels[s].id /\ p.left = panels[s].left
              /\ p.call = "none" /\ (p.timer => panels[s].timer)
            BY <1>0 DEF Panel
        <3>3. QED
            BY <3>1, <3>2
    <2>5. QED
        BY <2>1, <2>2, <2>3, <2>4
<1>3. PICK p \in Panel :
          /\ panels' = With(p) \/ panels' = Kept(With(p), shown)
          /\ p.id = panels[s].id /\ p.left = panels[s].left /\ p.call # "refetch"
          /\ p.call = "none" \/ s = shown
          /\ p.timer => panels[s].timer \/ Unlocked(s)
    BY <1>2
<1> DEFINE qs == With(p)
<1>4. /\ qs \in [PanelSlot -> Panel] /\ qs[s] = p
      /\ \A r \in PanelSlot \ {s} : qs[r] = panels[r]
    BY <1>0
<1>5. PanelsAreLeft(qs, shown)
    BY <1>0, <1>3, ChangedPanel
<1> HIDE DEF qs
<1>6. owed' => OnlyLeftOnes(qs)
    <2> SUFFICES ASSUME owed', NEW r \in PanelSlot, qs[r].timer \/ qs[r].call = "refetch"
                 PROVE  qs[r].left
        BY Zenon DEF OnlyLeftOnes
    <2>1. OnlyLeftOnes(panels)
        BY <1>1, Zenon DEF SessionInv, OverlayInv
    <2>2. CASE r = s
        <3>1. panels[s].timer
            BY <1>1, <1>3, <1>4, <2>2, Zenon
        <3>2. panels[s].left
            BY <2>1, <3>1, Zenon DEF OnlyLeftOnes
        <3>3. QED
            BY <1>3, <1>4, <2>2, <3>2, Zenon
    <2>3. CASE r # s
        BY <1>4, <2>1, <2>3 DEF OnlyLeftOnes
    <2>4. QED
        BY <2>2, <2>3
<1>7. /\ panels' \in [PanelSlot -> Panel] /\ PanelsAreLeft(panels', shown)
      /\ owed' => OnlyLeftOnes(panels')
    <2>1. CASE panels' = qs
        BY <1>4, <1>5, <1>6, <2>1, Zenon
    <2>2. CASE panels' = Kept(qs, shown)
        BY <1>0, <1>4, <1>5, <1>6, <2>2, KeptKeepsInv, Zenon
    <2>3. QED
        BY <1>3, <2>1, <2>2 DEF qs
<1>8. OverlayInv'
    <2>1. (PanelsAreLeft(panels, shown) /\ (owed => OnlyLeftOnes(panels)))'
        BY <1>1, <1>7, Zenon
    <2>2. QED
        BY <1>1, <2>1, Zenon DEF SessionInv, OverlayInv
<1>9. SessionTypeOK'
    BY <1>0, <1>1, <1>7, TypesKept, Zenon
<1>10. QED
    BY <1>0, <1>1, <1>8, <1>9, Zenon DEF SessionInv

\* The page loaded again: no panel but the one on the screen.
LEMMA ReloadKeepsInv ==
    ASSUME SessionInv, Reload
    PROVE  SessionInv' /\ (ui.locked => ui'.locked)
<1>0. /\ FreePanel \in Panel /\ Nobody \notin User /\ MaxPanels \in Nat \ {0}
      /\ cookie \in Cookie /\ owed \in BOOLEAN
    BY SessionTypes, SessionAssumption DEF SessionInv, SessionAssumption, FreePanel, Panel, Someone
<1>1. /\ UNCHANGED <<cookie, owed>> /\ out' = "no" /\ ui' \in Ui
      /\ QueryInv(ui', cookie, "no") /\ (ui.locked => ui'.locked)
    BY QueryOfTheReload
<1> DEFINE t == Target(ui')
<1>2. /\ shown' = IF t = Nobody THEN 0 ELSE 1
      /\ panels' = [s \in PanelSlot |-> IF s = 1 /\ t # Nobody
                                      THEN [FreePanel EXCEPT !.id = t] ELSE FreePanel]
    BY Zenon DEF Reload
<1>3. t \in Someone /\ (~ui'.locked => t = Nobody)
    BY <1>1 DEF Target, Ui, Someone
<1> HIDE DEF t
<1>4. /\ [FreePanel EXCEPT !.id = t] \in Panel /\ [FreePanel EXCEPT !.id = t].id = t
      /\ [FreePanel EXCEPT !.id = t].call = "none" /\ ~[FreePanel EXCEPT !.id = t].timer
      /\ ~[FreePanel EXCEPT !.id = t].left
    BY <1>0, <1>3 DEF FreePanel, Panel
<1>5. /\ panels' \in [PanelSlot -> Panel] /\ shown' \in 0..MaxPanels
      /\ \A s \in PanelSlot : /\ panels'[s].call = "none" /\ ~panels'[s].timer
                             /\ ~panels'[s].left /\ (s = shown' => panels'[s].id = t)
    BY <1>0, <1>2, <1>4, FreePanelIsFree DEF PanelSlot
<1>6. shown' # 0 => shown' \in PanelSlot /\ t # Nobody
    BY <1>0, <1>2 DEF PanelSlot
<1>7. PanelsAreLeft(panels', shown') /\ OnlyLeftOnes(panels')
    BY <1>5, <1>6 DEF PanelsAreLeft, OnlyLeftOnes
<1>8. OverlayInv'
    <2>1. PanelsAreLeft(panels, shown)' /\ OnlyLeftOnes(panels)'
        BY <1>7, Zenon
    <2>2. (~ui.locked => shown = 0)'
        BY <1>2, <1>3
    <2>3. QED
        BY <1>1, <2>1, <2>2, Zenon DEF OverlayInv
<1>9. SessionTypeOK'
    BY <1>0, <1>1, <1>5, TypesKept, Zenon
<1>10. QED
    BY <1>1, <1>8, <1>9, Zenon DEF SessionInv

\* Only a panel's timer and /onboarding take a lock away, and what is owed has been
\* left.
LEMMA SessionStep ==
    ASSUME SessionInv, [SessionNext]_sessionVars
    PROVE  /\ SessionInv'
           /\ owed /\ ui.locked /\ ~ui'.locked =>
                 \/ ui'.page = "/onboarding"
                 \/ \E s \in PanelSlot : panels[s].left /\ panels[s].timer /\ ~panels'[s].timer
<1>1. CASE UNCHANGED sessionVars
    <2>1. UNCHANGED <<cookie, ui, panels, shown, out, owed>>
        BY <1>1 DEF sessionVars
    <2>2. SessionTypeOK'
        BY <2>1, SessionTypes, TypesKept, Zenon DEF SessionInv
    <2>3. OverlayInv'
        BY <2>1 DEF SessionInv, OverlayInv
    <2>4. QueryInv(ui', cookie', out')
        BY <2>1 DEF SessionInv
    <2>5. SessionInv'
        BY <2>2, <2>3, <2>4, Zenon DEF SessionInv
    <2>6. QED
        BY <2>1, <2>5, Zenon
<1>2. CASE \/ SessionArrives \/ FocusRefetch \/ Collect \/ SelectUser \/ SwitchUser
           \/ Lock \/ Navigate \/ Logout \/ SignedOut \/ Back \/ OpenOnboarding
           \/ LeaveOnboarding \/ Reload
    BY <1>2, ScreenKeepsInv, ReloadKeepsInv, Zenon
<1>3. CASE Expire \/ SignOut
    <2>1. UNCHANGED <<ui, panels, shown, owed>>
        BY <1>3 DEF Expire, SignOut
    <2>2. cookie' \in Cookie /\ QueryInv(ui', cookie', out')
        BY <1>3, <2>1, QueryStays
    <2>3. out' \in {"no", "logout", "refetch"} /\ (out' # "no" => \A s \in PanelSlot : panels[s].call = "none")
        <3>1. CASE Expire
            <4>1. out' = out
                BY <3>1 DEF Expire
            <4>2. QED
                BY <4>1, SessionTypes DEF SessionInv, OverlayInv
        <3>2. CASE SignOut
            BY <3>2, Zenon DEF SignOut
        <3>3. QED
            BY <1>3, <3>1, <3>2
    <2>4. SessionTypeOK'
        BY <2>1, <2>2, <2>3, SessionTypes, TypesKept, Zenon DEF SessionInv
    <2>5. OverlayInv'
        BY <2>1, <2>3, Zenon DEF SessionInv, OverlayInv
    <2>6. QED
        BY <2>1, <2>2, <2>4, <2>5, Zenon DEF SessionInv
<1>4. CASE Submit
    <2>1. shown \in PanelSlot
        <3>1. shown # 0 /\ shown \in 0..MaxPanels /\ MaxPanels \in Nat
            BY <1>4, SessionTypes, SessionAssumption DEF Submit, SessionInv, SessionAssumption
        <3>2. QED
            BY <3>1 DEF PanelSlot
    <2>2. QED
        BY <1>4, <2>1, AskingKeepsInv, Zenon
<1>5. CASE \E s \in PanelSlot : Refused(s) \/ Unlocked(s) \/ Challenged(s)
    BY <1>5, AskingKeepsInv, Zenon
<1>6. CASE \E s \in PanelSlot : LoggedIn(s) \/ RefetchAwaited(s) \/ UnlockScreen(s)
    <2>1. PICK s \in PanelSlot : LoggedIn(s) \/ RefetchAwaited(s) \/ UnlockScreen(s)
        BY <1>6
    <2>2. QED
        BY <2>1, AcceptingKeepsInv, Zenon
<1>7. QED
    BY <1>1, <1>2, <1>3, <1>4, <1>5, <1>6, Zenon DEF SessionNext

\* Which answers the query may still get, which panels may still unlock, and what
\* the cached session may be of, whatever happens to the browser.
THEOREM SessionInvariance == SessionSpec => []SessionInv
BY SessionInitially, SessionStep, PTL DEF SessionSpec

\* After a sign-out the server has carried out no page is shown from the cache,
\* and a page in use at rest names the account of the live session, unless a fetch
\* of the session was overtaken.
THEOREM PagesFollowTheSession == SessionSpec => []PagesAreOfTheSession
<1>1. SessionInv => PagesAreOfTheSession
    <2> SUFFICES ASSUME SessionInv PROVE PagesAreOfTheSession
        OBVIOUS
    <2>1. Nobody \notin User
        BY SessionAssumption DEF SessionAssumption
    <2>2. SignedOutShowsNothing
        BY <2>1 DEF SessionInv, QueryInv, DataIsOfTheCookie, PagesAskAgain,
            SignedOutShowsNothing, SessionQuiet, Content
    <2>3. ShownUserIsSessions
        BY <2>1 DEF SessionInv, QueryInv, DataIsOfTheCookie, PagesAskAgain, UserIsOfTheData,
            ShownUserIsSessions, SessionQuiet, Content, Usable
    <2>4. QED
        BY <2>2, <2>3 DEF PagesAreOfTheSession
<1>2. QED
    BY <1>1, SessionInvariance, PTL

\* A lock the user asked for comes off after credentials given since, by the late
\* answer to a panel that was left for another account, or on /onboarding, whose
\* shell resets the lock store as it mounts.
THEOREM LocksHold == SessionSpec => RequestedLockHolds
<1>1. SessionInv /\ [SessionNext]_sessionVars =>
          [owed /\ ui.locked /\ ~ui'.locked =>
              \/ ui'.page = "/onboarding"
              \/ \E s \in PanelSlot : panels[s].left /\ panels[s].timer /\ ~panels'[s].timer]_sessionVars
    BY SessionStep
<1>2. QED
    BY <1>1, SessionInvariance, PTL DEF SessionSpec, RequestedLockHolds

-----------------------------------------------------------------------------
(* Sequences that are computed element by element.  What a recursive       *)
(* definition computes is reached by induction on a set of numbers: the    *)
(* numbers are well founded, so a set that has 0 and the successor of      *)
(* each of its elements has them all.                                      *)

LEMMA NatSetInduction ==
    ASSUME NEW T, 0 \in T, \A n \in Nat : n \in T => n + 1 \in T
    PROVE  Nat \subseteq T
<1> DEFINE R == OpToRel(<, Nat)
<1>1. IsWellFoundedOn(R, Nat)
    BY NatLessThanWellFounded
<1>2. \A x, y \in Nat : y < x => <<y, x>> \in R
    BY DEF OpToRel
<1> HIDE DEF R
<1>3. ASSUME Nat \ T # {}
      PROVE  FALSE
    <2>1. PICK x \in Nat \ T : \A y \in Nat \ T : ~ (<<y, x>> \in R)
        BY <1>1, <1>3, WFMin
    <2>2. x \in Nat \ {0} /\ x - 1 \in Nat /\ x - 1 < x
        BY <2>1
    <2>3. x - 1 \in T
        BY <1>2, <2>1, <2>2
    <2>4. QED
        BY <2>1, <2>2, <2>3
<1>4. QED
    BY <1>3

\* The numbers up to n: what holds of 0 and passes on to the next holds of all.
LEMMA UpTo ==
    ASSUME NEW n \in Nat, NEW T, 0 \in T, \A k \in 0..n - 1 : k \in T => k + 1 \in T
    PROVE  \A k \in 0..n : k \in T
<1> DEFINE U == {k \in Nat : k <= n => k \in T}
<1>1. 0 \in U
    OBVIOUS
<1>2. ASSUME NEW k \in Nat, k \in U
      PROVE  k + 1 \in U
    <2>1. CASE k + 1 <= n
        <3>1. k \in 0..n - 1 /\ k \in T
            BY <1>2, <2>1
        <3>2. QED
            BY <3>1
    <2>2. QED
        BY <2>1
<1> HIDE DEF U
<1>3. Nat \subseteq U
    BY <1>1, <1>2, NatSetInduction
<1>4. QED
    BY <1>3 DEF U

\* The functions that step i of n takes on the values of V, and what they
\* make of a first value b.
StepsOf(n, V) == [1..n -> [V -> V]]
Computed(f, n, V, b, h) ==
    f \in [0..n -> V] /\ f[0] = b /\ \A i \in 1..n : f[i] = h[i][f[i - 1]]

LEMMA Recursion ==
    ASSUME NEW n \in Nat, NEW V, NEW b \in V, NEW h \in StepsOf(n, V)
    PROVE  \E f : Computed(f, n, V, b, h)
<1> DEFINE Steps(f, k) == f[0] = b /\ \A i \in 1..k : f[i] = h[i][f[i - 1]]
           T == {k \in 0..n : \E f \in [0..k -> V] : Steps(f, k)}
<1>0. \A i \in 1..n, v \in V : h[i][v] \in V
    BY DEF StepsOf
<1>1. 0 \in T
    <2> DEFINE f == [i \in 0..0 |-> b]
    <2>1. f \in [0..0 -> V] /\ f[0] = b
        OBVIOUS
    <2> HIDE DEF f
    <2>2. Steps(f, 0) /\ 0 \in 0..n
        BY <2>1
    <2>3. QED
        BY <2>1, <2>2
<1>2. ASSUME NEW k \in 0..n - 1, k \in T
      PROVE  k + 1 \in T
    <2>1. PICK f \in [0..k -> V] : Steps(f, k)
        BY <1>2
    <2>2. k + 1 \in 1..n /\ f[k] \in V
        OBVIOUS
    <2>3. PICK v \in V : v = h[k + 1][f[k]]
        BY <1>0, <2>2
    <2> DEFINE g == [i \in 0..k + 1 |-> IF i = k + 1 THEN v ELSE f[i]]
    <2>4. g \in [0..k + 1 -> V]
        BY <2>3
    <2>5. g[0] = b
        BY <2>1
    <2>6. ASSUME NEW i \in 1..k + 1
          PROVE  g[i] = h[i][g[i - 1]]
        <3>1. i - 1 \in 0..k + 1 /\ i - 1 # k + 1 /\ g[i - 1] = f[i - 1]
            OBVIOUS
        <3>2. CASE i = k + 1
            BY <2>3, <3>1, <3>2
        <3>3. CASE i # k + 1
            <4>1. i \in 1..k /\ g[i] = f[i]
                BY <3>3
            <4>2. QED
                BY <2>1, <3>1, <4>1
        <3>4. QED
            BY <3>2, <3>3
    <2> HIDE DEF g
    <2>7. Steps(g, k + 1)
        BY <2>5, <2>6
    <2>8. QED
        BY <2>2, <2>4, <2>7
<1>3. \A k \in 0..n : k \in T
    <2> HIDE DEF T
    <2>1. QED
        BY <1>1, <1>2, UpTo
<1>4. QED
    BY <1>3 DEF Computed

\* Filtered goes through its list: f[i] is what it has kept of the first i
\* elements.
FilteredBy(f, s, T, n, S) ==
    /\ f \in [0..n -> Seq(S)] /\ f[0] = << >> /\ Filtered(s, T) = f[n]
    /\ \A i \in 1..n : f[i] = IF s[i] \in T THEN Append(f[i - 1], s[i]) ELSE f[i - 1]

LEMMA FilteredSteps ==
    ASSUME NEW S, NEW s \in Seq(S), NEW T, NEW n \in Nat, n = Len(s)
    PROVE  \E f : FilteredBy(f, s, T, n, S)
<1> DEFINE Next1(i, x) == IF s[i] \in T THEN Append(x, s[i]) ELSE x
           h == [i \in 1..n |-> [x \in Seq(S) |-> Next1(i, x)]]
           Keeping(f) == [i \in 0..n |-> IF i = 0 THEN << >> ELSE Next1(i, f[i - 1])]
           kept == CHOOSE f : f = Keeping(f)
<1>1. << >> \in Seq(S)
    OBVIOUS
<1>2. \A i \in 1..n, x \in Seq(S) : Next1(i, x) \in Seq(S)
    OBVIOUS
<1>3. Filtered(s, T) = kept[n]
    BY DEF Filtered
<1> HIDE DEF Next1
<1>4. h \in StepsOf(n, Seq(S)) /\ \A i \in 1..n, x \in Seq(S) : h[i][x] = Next1(i, x)
    BY <1>2 DEF StepsOf
<1> HIDE DEF h
<1>5. PICK f : Computed(f, n, Seq(S), << >>, h)
    BY <1>1, <1>4, Recursion
<1>6. /\ f \in [0..n -> Seq(S)] /\ f[0] = << >>
      /\ \A i \in 1..n : f[i] = Next1(i, f[i - 1])
    <2>1. \A i \in 1..n : i - 1 \in 0..n
        OBVIOUS
    <2>2. QED
        BY <1>4, <1>5, <2>1 DEF Computed
<1>7. f = Keeping(f)
    BY <1>6
<1>8. kept = Keeping(kept)
    BY <1>7
<1> HIDE DEF kept
<1>9. kept[0] = << >> /\ \A i \in 1..n : kept[i] = Next1(i, kept[i - 1])
    BY <1>8
<1> DEFINE U == {i \in 0..n : kept[i] = f[i]}
<1>10. 0 \in U
    BY <1>6, <1>9
<1>11. ASSUME NEW i \in 0..n - 1, i \in U
       PROVE  i + 1 \in U
    <2>1. i + 1 \in 1..n /\ (i + 1) - 1 = i /\ kept[i] = f[i]
        BY <1>11
    <2>2. kept[i + 1] = Next1(i + 1, kept[i]) /\ f[i + 1] = Next1(i + 1, f[i])
        BY ONLY <1>6, <1>9, <2>1
    <2>3. QED
        BY <2>1, <2>2
<1>12. kept[n] = f[n]
    <2> HIDE DEF U
    <2>1. \A i \in 0..n - 1 : i \in U => i + 1 \in U
        BY ONLY <1>11
    <2>2. \A i \in 0..n : i \in U
        BY ONLY <1>10, <2>1, UpTo, n \in Nat
    <2>3. QED
        BY <2>2 DEF U
<1>13. FilteredBy(f, s, T, n, S)
    BY <1>3, <1>6, <1>12 DEF FilteredBy, Next1
<1>14. QED
    BY <1>13

\* r is what is left of the first k elements of s when the others than those
\* of T are left out: e says where each comes from.
Thinned(r, s, k, T) ==
    \E e \in [1..Len(r) -> 1..k] :
        /\ \A a, b \in 1..Len(r) : a < b => e[a] < e[b]
        /\ \A a \in 1..Len(r) : r[a] = s[e[a]] /\ s[e[a]] \in T
        /\ \A i \in 1..k : s[i] \in T => \E a \in 1..Len(r) : e[a] = i

\* Array.prototype.filter keeps the elements of T and their order.
LEMMA FilteredIsThinned ==
    ASSUME NEW S, NEW s \in Seq(S), NEW T
    PROVE  Filtered(s, T) \in Seq(S) /\ Thinned(Filtered(s, T), s, Len(s), T)
<1>0. PICK n \in Nat : n = Len(s)
    OBVIOUS
<1>1. PICK f : FilteredBy(f, s, T, n, S)
    BY <1>0, FilteredSteps, Zenon
<1>2. \A i \in 1..n : s[i] \in S
    BY <1>0
<1> DEFINE U == {k \in 0..n : Thinned(f[k], s, k, T)}
<1>3. 0 \in U
    <2>1. Len(f[0]) = 0
        BY <1>1 DEF FilteredBy
    <2> DEFINE e == [i \in 1..0 |-> 1]
    <2>2. e \in [1..Len(f[0]) -> 1..0]
        BY <2>1
    <2> HIDE DEF e
    <2>3. Thinned(f[0], s, 0, T)
        <3>1. 1..0 = {} /\ 1..Len(f[0]) = {}
            BY ONLY <2>1
        <3>2. QED
            BY ONLY <2>2, <3>1 DEF Thinned
    <2>4. QED
        BY <1>2, <2>3
<1>4. ASSUME NEW k \in 0..n - 1, k \in U
      PROVE  k + 1 \in U
    <2> DEFINE r == f[k]
    <2>1. PICK e \in [1..Len(r) -> 1..k] :
             /\ \A a, b \in 1..Len(r) : a < b => e[a] < e[b]
             /\ \A a \in 1..Len(r) : r[a] = s[e[a]] /\ s[e[a]] \in T
             /\ \A i \in 1..k : s[i] \in T => \E a \in 1..Len(r) : e[a] = i
        BY <1>4 DEF Thinned
    <2>2. k \in Nat /\ k \in 0..n /\ k + 1 \in 1..n /\ k + 1 \in 0..n /\ (k + 1) - 1 = k
        BY ONLY n \in Nat, k \in 0..n - 1
    <2>0. r \in Seq(S) /\ Len(r) \in Nat /\ s[k + 1] \in S
        <3>1. f[k] \in Seq(S)
            BY ONLY <1>1, <2>2 DEF FilteredBy
        <3>2. s[k + 1] \in S
            BY ONLY <1>2, <2>2
        <3>3. QED
            BY ONLY <3>1, <3>2
    <2>3. CASE s[k + 1] \in T
        <3> DEFINE q == Append(r, s[k + 1])
                   d == [a \in 1..Len(r) + 1 |-> IF a = Len(r) + 1 THEN k + 1 ELSE e[a]]
        <3>1. /\ f[k + 1] = q /\ Len(q) = Len(r) + 1 /\ q[Len(r) + 1] = s[k + 1]
              /\ \A a \in 1..Len(r) : q[a] = r[a]
            <4>1. f[k + 1] = q
                BY ONLY <1>1, <2>2, <2>3 DEF FilteredBy
            <4>2. QED
                BY ONLY <2>0, <4>1, AppendProperties
        <3>2. d \in [1..Len(r) + 1 -> 1..k + 1] /\ d[Len(r) + 1] = k + 1
            BY <2>0, <2>2
        <3>3. \A a \in 1..Len(r) : d[a] = e[a] /\ e[a] \in 1..k
            <4>1. \A a \in 1..Len(r) : a \in 1..Len(r) + 1 /\ a # Len(r) + 1
                BY ONLY <2>0
            <4>2. QED
                BY <4>1
        <3> HIDE DEF q, d, r
        <3>4. \A a, b \in 1..Len(r) + 1 : a < b => d[a] < d[b]
            <4>1. TAKE a, b \in 1..Len(r) + 1
            <4>2. HAVE a < b
            <4>3. a \in 1..Len(r)
                BY ONLY <2>0, <4>2, a \in 1..Len(r) + 1, b \in 1..Len(r) + 1
            <4>4. CASE b = Len(r) + 1
                BY ONLY <2>2, <3>2, <3>3, <4>3, <4>4
            <4>5. CASE b # Len(r) + 1
                <5>1. b \in 1..Len(r)
                    BY ONLY <2>0, <4>5, b \in 1..Len(r) + 1
                <5>2. QED
                    BY <2>1, <3>3, <4>2, <4>3, <5>1
            <4>6. QED
                BY <4>4, <4>5
        <3>5. \A a \in 1..Len(r) + 1 : q[a] = s[d[a]] /\ s[d[a]] \in T
            <4>1. TAKE a \in 1..Len(r) + 1
            <4>2. CASE a = Len(r) + 1
                BY <2>3, <3>1, <3>2, <4>2
            <4>3. CASE a # Len(r) + 1
                <5>1. a \in 1..Len(r)
                    BY ONLY <2>0, <4>3, a \in 1..Len(r) + 1
                <5>2. QED
                    BY <2>1, <3>1, <3>3, <5>1
            <4>4. QED
                BY <4>2, <4>3
        <3>6. \A i \in 1..k + 1 : s[i] \in T => \E a \in 1..Len(r) + 1 : d[a] = i
            <4>1. TAKE i \in 1..k + 1
            <4>2. HAVE s[i] \in T
            <4>3. CASE i = k + 1
                <5>1. Len(r) + 1 \in 1..Len(r) + 1
                    BY ONLY <2>0
                <5>2. QED
                    BY <3>2, <4>3, <5>1
            <4>4. CASE i # k + 1
                <5>1. i \in 1..k
                    BY <2>2, <4>4
                <5>2. PICK a \in 1..Len(r) : e[a] = i
                    BY <2>1, <4>2, <5>1
                <5>3. a \in 1..Len(r) + 1
                    BY ONLY <2>0, a \in 1..Len(r)
                <5>4. QED
                    BY <3>3, <5>2, <5>3
            <4>5. QED
                BY <4>3, <4>4
        <3>7. Thinned(q, s, k + 1, T)
            <4>1. \A a, b \in 1..Len(q) : a < b => d[a] < d[b]
                BY <3>1, <3>4
            <4>2. \A a \in 1..Len(q) : q[a] = s[d[a]] /\ s[d[a]] \in T
                BY <3>1, <3>5
            <4>3. \A i \in 1..k + 1 : s[i] \in T => \E a \in 1..Len(q) : d[a] = i
                BY <3>1, <3>6
            <4>4. d \in [1..Len(q) -> 1..k + 1]
                BY <3>1, <3>2
            <4>5. QED
                BY ONLY <4>1, <4>2, <4>3, <4>4 DEF Thinned
        <3>8. QED
            BY ONLY <2>2, <3>1, <3>7
    <2>4. CASE s[k + 1] \notin T
        <3>1. f[k + 1] = r
            BY ONLY <1>1, <2>2, <2>4 DEF FilteredBy
        <3>2. e \in [1..Len(r) -> 1..k + 1]
            BY <2>2
        <3> HIDE DEF r
        <3>3. \A i \in 1..k + 1 : s[i] \in T => i \in 1..k
            BY ONLY <2>2, <2>4
        <3>4. Thinned(r, s, k + 1, T)
            BY <2>1, <3>2, <3>3 DEF Thinned
        <3>5. QED
            BY ONLY <2>2, <3>1, <3>4
    <2>5. QED
        BY <2>3, <2>4
<1>5. Thinned(f[n], s, n, T)
    <2> HIDE DEF U
    <2>1. \A k \in 0..n - 1 : k \in U => k + 1 \in U
        BY ONLY <1>4
    <2>2. \A k \in 0..n : k \in U
        BY ONLY <1>3, <2>1, UpTo, n \in Nat
    <2>3. QED
        BY <2>2 DEF U
<1>6. QED
    BY <1>0, <1>1, <1>5 DEF FilteredBy

\* A list whose elements are all in T is what the filter makes of it.
LEMMA AllAreKept ==
    ASSUME NEW S, NEW s \in Seq(S), NEW T, \A i \in 1..Len(s) : s[i] \in T
    PROVE  Filtered(s, T) = s
<1>0. PICK n \in Nat : n = Len(s)
    OBVIOUS
<1>1. PICK f : FilteredBy(f, s, T, n, S)
    BY <1>0, FilteredSteps, Zenon
<1> DEFINE U == {k \in 0..n : Len(f[k]) = k /\ \A i \in 1..k : f[k][i] = s[i]}
<1>2. 0 \in U
    BY <1>1 DEF FilteredBy
<1>3. ASSUME NEW k \in 0..n - 1, k \in U
      PROVE  k + 1 \in U
    <2>1. k \in Nat /\ k \in 0..n /\ k + 1 \in 1..n /\ k + 1 \in 0..n /\ (k + 1) - 1 = k
        BY ONLY n \in Nat, k \in 0..n - 1
    <2>2. f[k] \in Seq(S) /\ Len(f[k]) = k /\ \A i \in 1..k : f[k][i] = s[i]
        BY <1>1, <1>3, <2>1 DEF FilteredBy
    <2>3. s[k + 1] \in T /\ s[k + 1] \in S
        BY <1>0, <2>1
    <2>4. f[k + 1] = Append(f[k], s[k + 1])
        BY ONLY <1>1, <2>1, <2>3 DEF FilteredBy
    <2>5. /\ Len(f[k + 1]) = k + 1 /\ f[k + 1][k + 1] = s[k + 1]
          /\ \A i \in 1..k : f[k + 1][i] = f[k][i]
        BY ONLY <2>2, <2>3, <2>4, AppendProperties
    <2>6. \A i \in 1..k + 1 : i = k + 1 \/ i \in 1..k
        BY ONLY <2>1
    <2>7. \A i \in 1..k + 1 : f[k + 1][i] = s[i]
        BY ONLY <2>2, <2>5, <2>6
    <2>8. QED
        BY <2>1, <2>5, <2>7
<1>4. Len(f[n]) = n /\ \A i \in 1..n : f[n][i] = s[i]
    <2> HIDE DEF U
    <2>1. \A k \in 0..n - 1 : k \in U => k + 1 \in U
        BY ONLY <1>3
    <2>2. \A k \in 0..n : k \in U
        BY ONLY <1>2, <2>1, UpTo, n \in Nat
    <2>3. QED
        BY <2>2 DEF U
<1>5. f[n] \in Seq(S) /\ Filtered(s, T) = f[n]
    BY <1>1 DEF FilteredBy
<1>6. QED
    BY <1>0, <1>4, <1>5, SeqEqual

\* FlattenSeq goes through its sequences: f[i] is the first i in one.
FlattenedBy(f, p, n, S) ==
    /\ f \in [0..n -> Seq(S)] /\ f[0] = << >> /\ FlattenSeq(p) = f[n]
    /\ \A i \in 1..n : f[i] = f[i - 1] \o p[i]

LEMMA FlattenSteps ==
    ASSUME NEW S, NEW p \in Seq(Seq(S)), NEW n \in Nat, n = Len(p)
    PROVE  \E f : FlattenedBy(f, p, n, S)
<1> DEFINE h == [i \in 1..n |-> [x \in Seq(S) |-> x \o p[i]]]
           Joined(f) == [i \in 1..n |-> IF i = 1 THEN p[i] ELSE f[i - 1] \o p[i]]
           flatten == CHOOSE f : f = Joined(f)
<1>1. << >> \in Seq(S) /\ \A i \in 1..n : p[i] \in Seq(S)
    OBVIOUS
<1>2. \A i \in 1..n, x \in Seq(S) : x \o p[i] \in Seq(S)
    BY <1>1
<1>3. h \in StepsOf(n, Seq(S)) /\ \A i \in 1..n, x \in Seq(S) : h[i][x] = x \o p[i]
    BY <1>2 DEF StepsOf
<1> HIDE DEF h
<1>4. PICK f : Computed(f, n, Seq(S), << >>, h)
    BY <1>1, <1>3, Recursion
<1>5. /\ f \in [0..n -> Seq(S)] /\ f[0] = << >>
      /\ \A i \in 1..n : f[i] = f[i - 1] \o p[i]
    <2>1. \A i \in 1..n : i - 1 \in 0..n
        OBVIOUS
    <2>2. QED
        BY <1>3, <1>4, <2>1 DEF Computed
<1>6. CASE n = 0
    <2>1. p = << >> /\ Len(p) = 0
        BY ONLY <1>6, n = Len(p), p \in Seq(Seq(S)), EmptySeq
    <2>2. FlattenSeq(p) = f[n]
        BY <1>5, <1>6, <2>1 DEF FlattenSeq
    <2>3. QED
        BY <1>5, <2>2 DEF FlattenedBy
<1>7. CASE n # 0
    <2>1. FlattenSeq(p) = flatten[n]
        BY <1>7 DEF FlattenSeq
    <2> DEFINE g == [i \in 1..n |-> f[i]]
    <2>2. g = Joined(g)
        <3>1. \A i \in 1..n : g[i] = IF i = 1 THEN p[i] ELSE g[i - 1] \o p[i]
            <4>1. TAKE i \in 1..n
            <4>2. CASE i = 1
                <5>1. 1 \in 1..n /\ 1 - 1 = 0
                    BY ONLY <4>2, i \in 1..n
                <5>2. f[1] = f[1 - 1] \o p[1] /\ f[0] = << >> /\ p[1] \in Seq(S)
                    BY ONLY <1>1, <1>5, <5>1
                <5>3. << >> \o p[1] = p[1]
                    BY ONLY <5>2, ConcatEmptySeq
                <5>4. f[1] = p[1]
                    BY ONLY <5>1, <5>2, <5>3
                <5>5. QED
                    BY <4>2, <5>4
            <4>3. CASE i # 1
                <5>1. i - 1 \in 1..n
                    BY <4>3
                <5>2. QED
                    BY <1>5, <4>3, <5>1
            <4>4. QED
                BY <4>2, <4>3
        <3>2. QED
            BY <3>1
    <2>3. flatten = Joined(flatten)
        BY <2>2
    <2> HIDE DEF flatten, g
    <2>4. \A i \in 1..n : flatten[i] = IF i = 1 THEN p[i] ELSE flatten[i - 1] \o p[i]
        BY <2>3
    <2> DEFINE U == {i \in 0..n : i # 0 => flatten[i] = f[i]}
    <2>5. 0 \in U
        OBVIOUS
    <2>6. ASSUME NEW i \in 0..n - 1, i \in U
          PROVE  i + 1 \in U
        <3>1. i + 1 \in 1..n /\ (i + 1) - 1 = i /\ (i # 0 => i + 1 # 1 /\ flatten[i] = f[i])
            BY <2>6
        <3>2. f[i + 1] = f[i] \o p[i + 1]
            BY ONLY <1>5, <3>1
        <3>3. flatten[i + 1] = IF i + 1 = 1 THEN p[i + 1] ELSE flatten[i] \o p[i + 1]
            BY ONLY <2>4, <3>1
        <3>4. CASE i = 0
            <4>1. << >> \o p[1] = p[1]
                BY ONLY <1>1, <3>1, <3>4, ConcatEmptySeq
            <4>2. i + 1 = 1
                BY ONLY <3>4
            <4>3. flatten[1] = p[1] /\ f[1] = f[0] \o p[1]
                BY ONLY <3>2, <3>3, <3>4, <4>2
            <4>4. flatten[i + 1] = f[i + 1]
                BY ONLY <1>5, <4>1, <4>2, <4>3
            <4>5. QED
                BY ONLY <3>1, <4>4, n \in Nat
        <3>5. CASE i # 0
            <4>1. flatten[i + 1] = f[i + 1]
                BY ONLY <3>1, <3>2, <3>3, <3>5
            <4>2. QED
                BY ONLY <3>1, <4>1, n \in Nat
        <3>6. QED
            BY <3>4, <3>5
    <2>7. flatten[n] = f[n]
        <3> HIDE DEF U
        <3>1. \A i \in 0..n - 1 : i \in U => i + 1 \in U
            BY ONLY <2>6
        <3>2. \A i \in 0..n : i \in U
            BY ONLY <2>5, <3>1, UpTo, n \in Nat
        <3>3. QED
            BY <1>7, <3>2 DEF U
    <2>8. FlattenedBy(f, p, n, S)
        BY <1>5, <2>1, <2>7 DEF FlattenedBy
    <2>9. QED
        BY <2>8
<1>8. QED
    BY <1>6, <1>7

LEMMA FlattenIsSeq ==
    ASSUME NEW S, NEW p \in Seq(Seq(S))
    PROVE  FlattenSeq(p) \in Seq(S) /\ (p = << >> => FlattenSeq(p) = << >>)
<1>1. PICK n \in Nat : n = Len(p)
    OBVIOUS
<1>2. PICK f : FlattenedBy(f, p, n, S)
    BY <1>1, FlattenSteps
<1>3. QED
    BY <1>1, <1>2 DEF FlattenedBy

\* The slices of a list, one after the other, are its beginning.
InSlices(p, r, P) ==
    \A i \in 1..Len(p) : p[i] = SubSeq(r, (i - 1) * P + 1, Least((i - 1) * P + P, Len(r)))

LEMMA SlicesJoin ==
    ASSUME NEW S, NEW r \in Seq(S), NEW P \in Nat \ {0}, NEW p \in Seq(Seq(S)), InSlices(p, r, P)
    PROVE  FlattenSeq(p) = SubSeq(r, 1, Least(Len(p) * P, Len(r)))
<1>0. PICK n \in Nat, L \in Nat : n = Len(p) /\ L = Len(r)
    OBVIOUS
<1>1. PICK f : FlattenedBy(f, p, n, S)
    BY <1>0, FlattenSteps
<1> DEFINE U == {k \in 0..n : f[k] = SubSeq(r, 1, Least(k * P, L))}
<1>2. 0 \in U
    <2>1. 0 * P = 0 /\ Least(0, L) = 0
        BY ONLY P \in Nat \ {0}, L \in Nat DEF Least
    <2>2. SubSeq(r, 1, 0) = << >>
        BY SubSeqEmpty
    <2>3. f[0] = << >>
        BY <1>1 DEF FlattenedBy
    <2>4. f[0] = SubSeq(r, 1, Least(0 * P, L)) /\ 0 \in 0..n
        BY ONLY <2>1, <2>2, <2>3, n \in Nat
    <2>5. QED
        BY <2>4
<1>3. ASSUME NEW k \in 0..n - 1, k \in U
      PROVE  k + 1 \in U
    <2>1. k \in Nat /\ k + 1 \in 1..n /\ k + 1 \in 0..n /\ (k + 1) - 1 = k
        BY ONLY n \in Nat, k \in 0..n - 1
    <2>2. PICK a \in Nat : a = k * P /\ (k + 1) * P = a + P
        BY ONLY <2>1, P \in Nat \ {0}
    <2>3. p[k + 1] = SubSeq(r, a + 1, Least(a + P, L))
        BY <1>0, <2>1, <2>2 DEF InSlices
    <2>4. f[k + 1] = SubSeq(r, 1, Least(a, L)) \o SubSeq(r, a + 1, Least(a + P, L))
        BY <1>1, <1>3, <2>1, <2>2, <2>3 DEF FlattenedBy
    <2>5. f[k + 1] = SubSeq(r, 1, Least(a + P, L))
        <3>1. CASE a <= L
            <4>1. Least(a, L) = a /\ Least(a + P, L) \in a..L /\ a \in 1 - 1..L /\ 1 \in 1..L + 1
                BY ONLY <3>1, L \in Nat, P \in Nat \ {0}, a \in Nat DEF Least
            <4>2. PICK b \in a..L : b = Least(a + P, L)
                BY <4>1
            <4>3. SubSeq(r, 1, a) \o SubSeq(r, a + 1, b) = SubSeq(r, 1, b)
                BY ONLY <1>0, <4>1, r \in Seq(S), b \in a..L, ConcatAdjacentSubSeq
            <4>4. QED
                BY ONLY <2>4, <4>1, <4>2, <4>3
        <3>2. CASE ~(a <= L)
            <4>1. Least(a, L) = L /\ Least(a + P, L) = L /\ L < a + 1
                BY ONLY <3>2, L \in Nat, P \in Nat \ {0}, a \in Nat DEF Least
            <4>2. SubSeq(r, a + 1, L) = << >> /\ SubSeq(r, 1, L) = r
                BY <1>0, <4>1, SubSeqEmpty, SubSeqFull
            <4>3. r \o << >> = r
                OBVIOUS
            <4>4. QED
                BY ONLY <2>4, <4>1, <4>2, <4>3
        <3>3. QED
            BY <3>1, <3>2
    <2>6. QED
        BY ONLY <2>1, <2>2, <2>5
<1>4. QED
    <2> HIDE DEF U
    <2>1. \A k \in 0..n - 1 : k \in U => k + 1 \in U
        BY ONLY <1>3
    <2>2. \A k \in 0..n : k \in U
        BY ONLY <1>2, <2>1, UpTo, n \in Nat
    <2>3. n \in U
        BY ONLY <2>2, n \in Nat
    <2>4. f[n] = SubSeq(r, 1, Least(n * P, L))
        BY ONLY <2>3 DEF U
    <2>5. QED
        BY ONLY <1>0, <1>1, <2>4 DEF FlattenedBy

-----------------------------------------------------------------------------
(* InstalledApps: the invariant.  Every tile has one place in the saved    *)
(* order, what is shown and what is dragged is in it.                      *)

TilesInv ==
    /\ order \in Seq(Tile) /\ IsInjective(order)
    /\ installed \subseteq ToSet(order)
    /\ drag \in ToSet(order) \union {NoDrag}
    /\ over \in -1..Cardinality(Tile) - 1

\* The place of an element in a sequence that has it once.
LEMMA PlaceOf ==
    ASSUME NEW S, NEW o \in Seq(S), IsInjective(o)
    PROVE  /\ \A i \in 1..Len(o) : At(o, o[i]) = i /\ o[i] \in ToSet(o)
           /\ \A a \in ToSet(o) : At(o, a) \in 1..Len(o) /\ o[At(o, a)] = a
<1>1. DOMAIN o = 1..Len(o)
    OBVIOUS
<1>2. ASSUME NEW i \in 1..Len(o)
      PROVE  At(o, o[i]) = i /\ o[i] \in ToSet(o)
    <2>1. \A j \in DOMAIN o : o[j] = o[i] => j = i
        BY <1>1 DEF IsInjective
    <2>2. QED
        BY <1>1, <2>1 DEF At, ToSet
<1>3. ASSUME NEW a \in ToSet(o)
      PROVE  At(o, a) \in 1..Len(o) /\ o[At(o, a)] = a
    <2>1. \E i \in DOMAIN o : o[i] = a
        BY DEF ToSet
    <2>2. QED
        BY <1>1, <2>1 DEF At
<1>4. QED
    BY <1>2, <1>3

\* A finite set as a sequence has each of its elements once.
LEMMA SetInSequence ==
    ASSUME NEW S, IsFiniteSet(S)
    PROVE  SetToSeq(S) \in Seq(S) /\ IsInjective(SetToSeq(S)) /\ ToSet(SetToSeq(S)) = S
<1>1. PICK n \in Nat : n = Cardinality(S)
    BY FS_CardinalityType
<1>2. ExistsBijection(1..n, S)
    BY <1>1, FS_CardinalityType
<1>3. PICK g \in [1..n -> S] : IsInjective(g)
    BY <1>2 DEF ExistsBijection, Bijection, Injection, IsInjective
<1> DEFINE f == SetToSeq(S)
<1>4. f \in [1..n -> S] /\ IsInjective(f)
    BY <1>1, <1>3 DEF SetToSeq
<1> HIDE DEF f
<1>5. f \in Seq(S) /\ DOMAIN f = 1..n
    BY <1>1, <1>4
<1>6. ToSet(f) \subseteq S
    BY <1>4 DEF ToSet
<1>7. ToSet(f) = S
    <2>1. f \in Injection(1..n, S)
        BY <1>4 DEF Injection
    <2>2. Cardinality(1..n) = Cardinality(S)
        BY <1>1, FS_Interval
    <2>3. f \in Surjection(1..n, S)
        BY <2>1, <2>2, FS_Injection
    <2>4. QED
        BY <1>4, <1>6, <2>3 DEF Surjection, ToSet
<1>8. QED
    BY <1>4, <1>5, <1>7 DEF f

\* A sequence that has its elements once has as many of them as it is long.
LEMMA OneEach ==
    ASSUME NEW S, NEW o \in Seq(S), IsInjective(o)
    PROVE  IsFiniteSet(ToSet(o)) /\ Cardinality(ToSet(o)) = Len(o)
<1>1. o \in [1..Len(o) -> ToSet(o)] /\ Len(o) \in Nat
    BY DEF ToSet
<1>2. o \in Bijection(1..Len(o), ToSet(o))
    BY <1>1 DEF Bijection, Injection, Surjection, IsInjective, ToSet
<1>3. IsFiniteSet(1..Len(o)) /\ Cardinality(1..Len(o)) = Len(o)
    <2>1. PICK n \in Nat : n = Len(o)
        BY <1>1
    <2>2. IsFiniteSet(1..n) /\ Cardinality(1..n) = n
        BY FS_Interval
    <2>3. QED
        BY <2>1, <2>2
<1>4. ExistsBijection(1..Len(o), ToSet(o))
    BY <1>2 DEF ExistsBijection
<1>5. QED
    BY <1>3, <1>4, FS_Bijection

\* Where the elements of o go when another one is put at index m, from 0.
Shifted(m, k) == IF k <= m THEN k ELSE k + 1

IsSplice(q, S, o, m, a) ==
    /\ q \in Seq(S) /\ Len(q) = Len(o) + 1 /\ q[m + 1] = a
    /\ \A k \in 1..Len(o) : q[Shifted(m, k)] = o[k]

LEMMA Spliced ==
    ASSUME NEW S, NEW o \in Seq(S), NEW i \in Nat, NEW a \in S
    PROVE  IsSplice(Splice(o, i, a), S, o, Least(i, Len(o)), a)
<1> DEFINE q == Splice(o, i, a)
<1>0. PICK n \in Nat, m \in Nat : n = Len(o) /\ m = Least(i, Len(o)) /\ m \in 0..n
    <2>1. PICK n \in Nat : n = Len(o)
        OBVIOUS
    <2>2. Least(i, n) \in 0..n /\ Least(i, n) \in Nat
        BY ONLY i \in Nat, n \in Nat DEF Least
    <2>3. QED
        BY <2>1, <2>2
<1>1. n \in Nat /\ m \in Nat /\ m <= n /\ (i <= n => m = i) /\ (~(i <= n) => m = n)
    BY ONLY <1>0, n \in Nat, m \in Nat, i \in Nat DEF Least
<1>2. ASSUME i <= n
      PROVE  /\ q \in Seq(S) /\ Len(q) = n + 1 /\ q[m + 1] = a
             /\ \A k \in 1..n : q[Shifted(m, k)] = o[k]
    <2> DEFINE front == SubSeq(o, 1, m)
               back == SubSeq(o, m + 1, n)
               middle == front \o <<a>>
    <2>1. q = middle \o back
        <3>1. i = m /\ (i + 1) - 1 = m
            BY <1>1, <1>2
        <3>2. QED
            BY <1>0, <1>2, <3>1 DEF Splice, InsertAt
    <2>2. /\ front \in Seq(S) /\ Len(front) = m
          /\ \A k \in 1..m : front[k] = o[k]
        <3>1. \A k \in 1..m : o[k] \in S /\ 1 + k - 1 = k
            BY <1>0, <1>1
        <3>2. QED
            BY <1>1, <3>1, SubSeqProperties
    <2>3. /\ back \in Seq(S) /\ Len(back) = n - m
          /\ \A k \in 1..n - m : back[k] = o[m + k]
        <3>1. /\ \A k \in m + 1..n : o[k] \in S
              /\ n - (m + 1) + 1 = n - m /\ \A k \in Nat : (m + 1) + k - 1 = m + k
            BY <1>0, <1>1
        <3>2. SubSeq(o, m + 1, n) \in Seq(S)
            BY ONLY <1>1, <3>1, n \in Nat, SubSeqProperties
        <3>3. Len(SubSeq(o, m + 1, n)) = n - m
            <4>1. Len(SubSeq(o, m + 1, n)) = IF m + 1 <= n THEN n - (m + 1) + 1 ELSE 0
                BY ONLY <1>1, <3>1, n \in Nat, SubSeqProperties
            <4>2. QED
                BY ONLY <1>1, <4>1
        <3>4. \A k \in 1..n - (m + 1) + 1 : SubSeq(o, m + 1, n)[k] = o[(m + 1) + k - 1]
            BY ONLY <1>1, <3>1, n \in Nat, SubSeqProperties
        <3>5. \A k \in 1..n - m : SubSeq(o, m + 1, n)[k] = o[m + k]
            BY ONLY <1>1, <3>1, <3>4, n \in Nat
        <3>6. QED
            BY <3>2, <3>3, <3>5
    <2>4. <<a>> \in Seq(S) /\ Len(<<a>>) = 1 /\ <<a>>[1] = a
        OBVIOUS
    <2> HIDE DEF front, back
    <2>5. /\ middle \in Seq(S) /\ Len(middle) = m + 1 /\ middle[m + 1] = a
          /\ \A k \in 1..m : middle[k] = o[k]
        <3>1. middle \in Seq(S) /\ Len(middle) = m + 1
            BY ONLY <2>2, <2>4, ConcatProperties DEF middle
        <3>2. \A k \in 1..m + 1 : middle[k] = IF k <= m THEN front[k] ELSE <<a>>[k - m]
            BY ONLY <2>2, <2>4, ConcatProperties DEF middle
        <3>3. middle[m + 1] = a
            <4>1. m + 1 \in 1..m + 1 /\ ~(m + 1 <= m) /\ (m + 1) - m = 1
                BY ONLY m \in Nat
            <4>2. QED
                BY ONLY <2>4, <3>2, <4>1
        <3>4. \A k \in 1..m : middle[k] = o[k]
            BY ONLY <2>2, <3>2, m \in Nat
        <3>5. QED
            BY <3>1, <3>3, <3>4
    <2> HIDE DEF middle
    <2>6. /\ q \in Seq(S) /\ Len(q) = n + 1
          /\ \A k \in 1..n + 1 : q[k] = IF k <= m + 1 THEN middle[k] ELSE back[k - (m + 1)]
        <3>1. (m + 1) + (n - m) = n + 1
            BY ONLY <1>1
        <3>2. QED
            BY ONLY <2>1, <2>3, <2>5, <3>1, ConcatProperties
    <2> HIDE DEF q
    <2>7. q[m + 1] = a
        BY <1>1, <2>5, <2>6
    <2>8. ASSUME NEW k \in 1..n
          PROVE  q[Shifted(m, k)] = o[k]
        <3>1. CASE k <= m
            <4>1. Shifted(m, k) = k /\ k \in 1..n + 1 /\ k <= m + 1 /\ k \in 1..m
                BY ONLY <1>1, <3>1, k \in 1..n DEF Shifted
            <4>2. QED
                BY ONLY <2>5, <2>6, <4>1
        <3>2. CASE k > m
            <4>1. /\ Shifted(m, k) = k + 1 /\ k + 1 \in 1..n + 1 /\ ~(k + 1 <= m + 1)
                  /\ (k + 1) - (m + 1) = k - m /\ k - m \in 1..n - m /\ m + (k - m) = k
                BY <1>1, <3>2 DEF Shifted
            <4>2. q[k + 1] = back[(k + 1) - (m + 1)]
                BY ONLY <2>6, <4>1
            <4>3. back[k - m] = o[m + (k - m)]
                BY ONLY <2>3, <4>1
            <4>4. QED
                BY <4>1, <4>2, <4>3
        <3>3. QED
            BY ONLY <1>1, <3>1, <3>2, k \in 1..n
    <2>9. QED
        BY <2>6, <2>7, <2>8 DEF q
<1>3. ASSUME ~(i <= n)
      PROVE  /\ q \in Seq(S) /\ Len(q) = n + 1 /\ q[m + 1] = a
             /\ \A k \in 1..n : q[Shifted(m, k)] = o[k]
    <2>1. q = Append(o, a) /\ m = n
        BY <1>0, <1>1, <1>3 DEF Splice
    <2> HIDE DEF q
    <2>2. \A k \in 1..n : Shifted(m, k) = k
        BY ONLY <1>1, <2>1 DEF Shifted
    <2>3. q \in Seq(S) /\ Len(q) = n + 1 /\ q[n + 1] = a /\ \A k \in 1..n : q[k] = o[k]
        BY <1>0, <2>1, AppendProperties
    <2>4. QED
        BY <2>1, <2>2, <2>3 DEF q
<1>4. /\ q \in Seq(S) /\ Len(q) = n + 1 /\ q[m + 1] = a
      /\ \A k \in 1..n : q[Shifted(m, k)] = o[k]
    BY <1>2, <1>3
<1> HIDE DEF q
<1>5. IsSplice(q, S, o, m, a)
    BY ONLY <1>0, <1>4 DEF IsSplice
<1>6. QED
    BY <1>0, <1>5 DEF q

\* An element of S is taken out of the order and put back at index i: it is
\* there, and the others follow each other as before.
IsMoved(q, s, S, a, i) ==
    /\ q \in Seq(S) /\ IsInjective(q) /\ ToSet(q) = ToSet(s)
    /\ \A b, c \in ToSet(s) \ {a} : At(s, b) < At(s, c) => At(q, b) < At(q, c)
    /\ i < Len(s) => q[i + 1] = a

LEMMA Moved ==
    ASSUME NEW S, NEW s \in Seq(S), IsInjective(s), NEW a \in S, a \in ToSet(s),
           NEW i \in Nat, NEW q, q = Splice(Filtered(s, S \ {a}), i, a)
    PROVE  IsMoved(q, s, S, a, i)
<1> DEFINE o == Filtered(s, S \ {a})
<1>0. PICK n \in Nat, N \in Nat : n = Len(s) /\ N = Len(o)
    BY FilteredIsThinned
<1>1. o \in Seq(S) /\ Thinned(o, s, n, S \ {a})
    BY <1>0, FilteredIsThinned
<1>2. DOMAIN s = 1..n /\ DOMAIN o = 1..N /\ (\A j \in 1..n : s[j] \in S)
    BY <1>0, <1>1
<1>3. q = Splice(o, i, a)
    OBVIOUS
<1> HIDE DEF o
<1>4. PICK e \in [1..N -> 1..n] :
         /\ \A k, l \in 1..N : k < l => e[k] < e[l]
         /\ \A k \in 1..N : o[k] = s[e[k]] /\ s[e[k]] \in S \ {a}
         /\ \A j \in 1..n : s[j] \in S \ {a} => \E k \in 1..N : e[k] = j
    <2>1. N = Len(o)
        BY <1>0
    <2>2. PICK d \in [1..Len(o) -> 1..n] :
             /\ \A k, l \in 1..Len(o) : k < l => d[k] < d[l]
             /\ \A k \in 1..Len(o) : o[k] = s[d[k]] /\ s[d[k]] \in S \ {a}
             /\ \A j \in 1..n : s[j] \in S \ {a} => \E k \in 1..Len(o) : d[k] = j
        BY ONLY <1>1 DEF Thinned
    <2>3. d \in [1..N -> 1..n]
        BY ONLY <2>1
    <2>4. /\ \A k, l \in 1..N : k < l => d[k] < d[l]
          /\ \A k \in 1..N : o[k] = s[d[k]] /\ s[d[k]] \in S \ {a}
          /\ \A j \in 1..n : s[j] \in S \ {a} => \E k \in 1..N : d[k] = j
        BY ONLY <2>1, <2>2
    <2>5. QED
        BY ONLY <2>3, <2>4
\* o has the elements of s but a, each once.
<1>5. \A k, l \in 1..N : o[k] = o[l] => k = l
    <2>1. SUFFICES ASSUME NEW k \in 1..N, NEW l \in 1..N, o[k] = o[l]
                   PROVE  k = l
        OBVIOUS
    <2>2. e[k] \in 1..n /\ e[l] \in 1..n /\ s[e[k]] = s[e[l]]
        BY <1>4, <2>1
    <2>3. e[k] = e[l]
        BY ONLY <1>2, <2>2, IsInjective(s) DEF IsInjective
    <2>4. ~(k < l) /\ ~(l < k)
        <3>1. k < l => e[k] < e[l]
            BY ONLY <1>4, k \in 1..N, l \in 1..N
        <3>2. l < k => e[l] < e[k]
            BY ONLY <1>4, k \in 1..N, l \in 1..N
        <3>3. QED
            BY ONLY <2>2, <2>3, <3>1, <3>2, n \in Nat
    <2>5. QED
        BY ONLY <2>4, k \in 1..N, l \in 1..N
<1>6. \A b \in ToSet(s) \ {a} : \E k \in 1..N : o[k] = b /\ e[k] = At(s, b)
    <2>1. TAKE b \in ToSet(s) \ {a}
    <2>2. PICK j \in 1..n : s[j] = b
        BY <1>2 DEF ToSet
    <2>3. At(s, b) = j
        BY <1>0, <2>2, PlaceOf
    <2>4. s[j] \in S \ {a}
        BY <1>2, <2>1, <2>2
    <2>5. QED
        BY <1>4, <2>2, <2>3, <2>4
<1>7. \A k \in 1..N : o[k] \in ToSet(s) \ {a}
    BY <1>2, <1>4 DEF ToSet
\* q has the elements of o around a, which is at m + 1.
<1>8. PICK m \in 0..N : m = Least(i, N) /\ (i <= N => m = i)
    BY ONLY i \in Nat, N \in Nat DEF Least
<1>9. /\ q \in Seq(S) /\ Len(q) = N + 1 /\ q[m + 1] = a
      /\ \A k \in 1..N : q[Shifted(m, k)] = o[k]
    <2>1. o \in Seq(S) /\ N = Len(o) /\ N \in Nat /\ i \in Nat /\ a \in S /\ m \in 0..N
        BY <1>0, <1>1
    <2>2. IsSplice(q, S, o, m, a)
        BY ONLY <1>3, <1>8, <2>1, Spliced
    <2>3. QED
        BY ONLY <2>1, <2>2 DEF IsSplice
<1>10. /\ DOMAIN q = 1..N + 1 /\ m + 1 \in 1..N + 1
       /\ \A k \in 1..N : Shifted(m, k) \in 1..N + 1
       /\ \A k, l \in 1..N : k < l => Shifted(m, k) < Shifted(m, l)
       /\ \A j \in 1..N + 1 : j = m + 1 \/ \E k \in 1..N : j = Shifted(m, k)
    <2>1. DOMAIN q = 1..N + 1
        BY <1>9
    <2>2. m + 1 \in 1..N + 1 /\ m \in Nat
        BY ONLY N \in Nat, m \in 0..N
    <2>3. /\ \A k \in 1..N : Shifted(m, k) \in 1..N + 1
          /\ \A k, l \in 1..N : k < l => Shifted(m, k) < Shifted(m, l)
        BY ONLY N \in Nat, <2>2 DEF Shifted
    <2>4. ASSUME NEW j \in 1..N + 1, j # m + 1
          PROVE  \E k \in 1..N : j = Shifted(m, k)
        <3>1. CASE j <= m
            <4>1. j \in 1..N /\ Shifted(m, j) = j
                BY ONLY N \in Nat, <3>1, m \in 0..N, j \in 1..N + 1 DEF Shifted
            <4>2. QED
                BY <4>1
        <3>2. CASE ~(j <= m)
            <4>1. j - 1 \in 1..N /\ Shifted(m, j - 1) = j
                BY ONLY N \in Nat, <2>4, <3>2, m \in 0..N, j \in 1..N + 1 DEF Shifted
            <4>2. QED
                BY <4>1
        <3>3. QED
            BY <3>1, <3>2
    <2>5. QED
        BY <2>1, <2>2, <2>3, <2>4
<1>11. IsInjective(q)
    <2>1. SUFFICES ASSUME NEW j \in 1..N + 1, NEW l \in 1..N + 1, q[j] = q[l]
                   PROVE  j = l
        BY <1>10 DEF IsInjective
    <2>2. CASE j = m + 1 \/ l = m + 1
        <3>1. \A k \in 1..N : o[k] # a
            BY <1>7
        <3>2. QED
            BY ONLY <1>9, <1>10, <2>1, <2>2, <3>1, j \in 1..N + 1, l \in 1..N + 1
    <2>3. CASE j # m + 1 /\ l # m + 1
        <3>1. PICK k \in 1..N, p \in 1..N : j = Shifted(m, k) /\ l = Shifted(m, p)
            BY <1>10, <2>3
        <3>2. o[k] = o[p]
            BY <1>9, <2>1, <3>1
        <3>3. QED
            BY <1>5, <3>1, <3>2
    <2>4. QED
        BY <2>2, <2>3
<1>12. ToSet(q) = ToSet(s)
    <2>1. ASSUME NEW b \in ToSet(q)
          PROVE  b \in ToSet(s)
        <3>1. PICK j \in 1..N + 1 : b = q[j]
            BY <1>10 DEF ToSet
        <3>2. CASE j = m + 1
            BY <1>9, <3>1, <3>2
        <3>3. CASE j # m + 1
            <4>1. PICK k \in 1..N : j = Shifted(m, k)
                BY <1>10, <3>3
            <4>2. QED
                BY <1>7, <1>9, <3>1, <4>1
        <3>4. QED
            BY <3>2, <3>3
    <2>2. ASSUME NEW b \in ToSet(s)
          PROVE  b \in ToSet(q)
        <3>1. \A j \in 1..N + 1 : q[j] \in ToSet(q)
            BY <1>10 DEF ToSet
        <3>2. CASE b = a
            BY <1>9, <1>10, <3>1, <3>2
        <3>3. CASE b # a
            <4>1. PICK k \in 1..N : o[k] = b
                BY <1>6, <2>2, <3>3
            <4>2. QED
                BY <1>9, <1>10, <3>1, <4>1
        <3>4. QED
            BY <3>2, <3>3
    <2>3. QED
        BY <2>1, <2>2
<1>13. ASSUME NEW b \in ToSet(s) \ {a}, NEW c \in ToSet(s) \ {a}, At(s, b) < At(s, c)
       PROVE  At(q, b) < At(q, c)
    <2>1. PICK k \in 1..N, l \in 1..N : /\ o[k] = b /\ e[k] = At(s, b)
                                       /\ o[l] = c /\ e[l] = At(s, c)
        BY <1>6
    <2>2. e[k] \in 1..n /\ e[l] \in 1..n /\ e[k] < e[l]
        BY <1>4, <1>13, <2>1
    <2>3. k < l
        <3>1. l < k => e[l] < e[k]
            BY ONLY <1>4, k \in 1..N, l \in 1..N
        <3>2. k # l /\ ~(l < k)
            BY ONLY <2>2, <3>1, n \in Nat
        <3>3. QED
            BY ONLY <3>2, k \in 1..N, l \in 1..N, N \in Nat
    <2>4. Shifted(m, k) < Shifted(m, l) /\ Shifted(m, k) \in 1..N + 1 /\ Shifted(m, l) \in 1..N + 1
        BY ONLY <1>10, <2>3, k \in 1..N, l \in 1..N
    <2>5. q[Shifted(m, k)] = b /\ q[Shifted(m, l)] = c
        BY <1>9, <2>1
    <2>6. At(q, b) = Shifted(m, k) /\ At(q, c) = Shifted(m, l)
        BY <1>9, <1>11, <2>4, <2>5, PlaceOf
    <2>7. QED
        BY <2>4, <2>6
<1>14. i < Len(s) => q[i + 1] = a
    <2>1. SUFFICES ASSUME i < n
                   PROVE  i <= N
        BY <1>0, <1>8, <1>9
    <2>2. IsFiniteSet(ToSet(s)) /\ Cardinality(ToSet(s)) = n
        BY <1>0, OneEach
    <2>3. Cardinality(ToSet(q)) = N + 1
        BY <1>9, <1>11, OneEach
    <2>4. QED
        BY ONLY <1>12, <2>1, <2>2, <2>3, i \in Nat, n \in Nat, N \in Nat
<1>15. QED
    BY <1>9, <1>11, <1>12, <1>13, <1>14 DEF IsMoved

LEMMA TilesInitially == TilesInit => TilesInv
<1> SUFFICES ASSUME TilesInit
             PROVE  TilesInv
    OBVIOUS
<1>1. /\ order = << >> /\ order \in Seq(Tile) /\ DOMAIN order = {}
      /\ installed = {} /\ drag = NoDrag /\ over = -1
    BY DEF TilesInit
<1>2. Cardinality(Tile) \in Nat
    BY TilesAssumption, FS_CardinalityType
<1>3. IsInjective(order)
    BY <1>1 DEF IsInjective
<1>4. over \in -1..Cardinality(Tile) - 1
    BY ONLY <1>1, <1>2
<1>5. QED
    BY <1>1, <1>3, <1>4 DEF TilesInv

\* The effect after a poll appends what is new, each once.
LEMMA Polled ==
    ASSUME NEW apps \in SUBSET Tile, order \in Seq(Tile), IsInjective(order),
           NEW q, q = order \o Missing(apps, order)
    PROVE  /\ q \in Seq(Tile) /\ IsInjective(q)
           /\ ToSet(order) \subseteq ToSet(q) /\ apps \subseteq ToSet(q)
           /\ \A a \in ToSet(order) : At(q, a) = At(order, a)
<1> DEFINE new == Missing(apps, order)
<1>1. /\ new \in Seq(apps \ ToSet(order)) /\ IsInjective(new)
      /\ ToSet(new) = apps \ ToSet(order)
    <2>1. IsFiniteSet(apps \ ToSet(order))
        BY TilesAssumption, FS_Subset
    <2>2. QED
        BY <2>1, SetInSequence DEF Missing
<1>2. new \in Seq(Tile) /\ q = order \o new
    BY <1>1
<1> HIDE DEF new
<1>3. PICK n \in Nat, m \in Nat : n = Len(order) /\ m = Len(new)
    BY <1>2
<1>4. DOMAIN order = 1..n /\ DOMAIN new = 1..m
    BY <1>2, <1>3
<1>5. /\ q \in Seq(Tile) /\ Len(q) = n + m
      /\ \A i \in 1..n + m : q[i] = IF i <= n THEN order[i] ELSE new[i - n]
    BY ONLY <1>2, <1>3, order \in Seq(Tile), ConcatProperties
<1>6. DOMAIN q = 1..n + m
    BY <1>5
<1>7. \A i \in 1..n : i \in 1..n + m /\ q[i] = order[i] /\ order[i] \in ToSet(order)
    <2>1. TAKE i \in 1..n
    <2>2. i \in 1..n + m /\ i <= n
        BY ONLY n \in Nat, m \in Nat, i \in 1..n
    <2>3. QED
        BY <1>4, <1>5, <2>2 DEF ToSet
<1>8. \A i \in 1..m : n + i \in 1..n + m /\ q[n + i] = new[i] /\ new[i] \in ToSet(new)
    <2>1. TAKE i \in 1..m
    <2>2. n + i \in 1..n + m /\ ~(n + i <= n) /\ (n + i) - n = i
        BY ONLY n \in Nat, m \in Nat, i \in 1..m
    <2>3. QED
        BY <1>4, <1>5, <2>2 DEF ToSet
<1>9. \A i \in 1..n + m : i \in 1..n \/ \E j \in 1..m : i = n + j
    <2>1. TAKE i \in 1..n + m
    <2>2. CASE i <= n
        BY ONLY <2>2, n \in Nat, i \in 1..n + m
    <2>3. CASE ~(i <= n)
        <3>1. i - n \in 1..m /\ i = n + (i - n)
            BY ONLY <2>3, n \in Nat, m \in Nat, i \in 1..n + m
        <3>2. QED
            BY <3>1
    <2>4. QED
        BY <2>2, <2>3
<1>10. IsInjective(q)
    <2>1. SUFFICES ASSUME NEW i \in 1..n + m, NEW j \in 1..n + m, q[i] = q[j]
                   PROVE  i = j
        BY <1>6 DEF IsInjective
    <2>2. CASE i \in 1..n /\ j \in 1..n
        BY <1>4, <1>7, <2>1, <2>2 DEF IsInjective
    <2>0. /\ \A k \in 1..n : q[k] \in ToSet(order)
          /\ \A k \in 1..n + m : k \notin 1..n => q[k] \notin ToSet(order)
        <3>1. \A k \in 1..m : q[n + k] \notin ToSet(order)
            BY ONLY <1>1, <1>8
        <3>2. QED
            BY ONLY <1>7, <1>9, <3>1
    <2>3. CASE i \in 1..n /\ j \notin 1..n
        BY ONLY <2>0, <2>1, <2>3, j \in 1..n + m
    <2>4. CASE i \notin 1..n /\ j \in 1..n
        BY ONLY <2>0, <2>1, <2>4, i \in 1..n + m
    <2>5. CASE i \notin 1..n /\ j \notin 1..n
        <3>1. PICK k \in 1..m, l \in 1..m : i = n + k /\ j = n + l
            BY <1>9, <2>5
        <3>2. k = l
            BY <1>1, <1>4, <1>8, <2>1, <3>1 DEF IsInjective
        <3>3. QED
            BY <3>1, <3>2
    <2>6. QED
        BY <2>2, <2>3, <2>4, <2>5
<1>11. ToSet(order) \subseteq ToSet(q) /\ ToSet(new) \subseteq ToSet(q)
    <2>1. \A i \in 1..n + m : q[i] \in ToSet(q)
        BY <1>6 DEF ToSet
    <2>2. \A a \in ToSet(order) : \E i \in 1..n : a = order[i]
        BY <1>4 DEF ToSet
    <2>3. \A a \in ToSet(new) : \E i \in 1..m : a = new[i]
        BY <1>4 DEF ToSet
    <2>4. ToSet(order) \subseteq ToSet(q)
        BY ONLY <1>7, <2>1, <2>2
    <2>5. ToSet(new) \subseteq ToSet(q)
        BY ONLY <1>8, <2>1, <2>3
    <2>6. QED
        BY <2>4, <2>5
<1>12. apps \subseteq ToSet(q)
    BY <1>1, <1>11
<1>13. ASSUME NEW a \in ToSet(order)
       PROVE  At(q, a) = At(order, a)
    <2>1. PICK i \in 1..n : order[i] = a
        BY <1>4 DEF ToSet
    <2>2. At(order, a) = i
        BY <1>3, <2>1, PlaceOf
    <2>3. i \in 1..Len(q) /\ q[i] = a
        BY <1>5, <1>7, <2>1
    <2>4. At(q, a) = i
        BY <1>5, <1>10, <2>3, PlaceOf
    <2>5. QED
        BY <2>2, <2>4
<1>14. QED
    BY <1>5, <1>10, <1>11, <1>12, <1>13

\* A dropped tile.
LEMMA DropMoves ==
    ASSUME TilesInv, handleDrop, drag # NoDrag
    PROVE  /\ order' \in Seq(Tile) /\ IsInjective(order') /\ ToSet(order') = ToSet(order)
           /\ \A b, c \in ToSet(order) \ {drag} :
                 At(order, b) < At(order, c) => At(order', b) < At(order', c)
           /\ over < Len(order) => order'[over + 1] = drag
<1>1. /\ order \in Seq(Tile) /\ IsInjective(order) /\ drag \in ToSet(order) /\ installed \subseteq Tile
      /\ over \in 0..Cardinality(installed) - 1
      /\ order' = Splice(Filtered(order, Tile \ {drag}), over, drag)
    <2>1. ToSet(order) \subseteq Tile
        BY DEF TilesInv, ToSet
    <2>2. QED
        BY <2>1 DEF TilesInv, handleDrop
<1>2. drag \in Tile
    BY <1>1 DEF ToSet
<1>3. over \in Nat
    <2>1. Cardinality(installed) \in Nat
        BY <1>1, TilesAssumption, FS_Subset, FS_CardinalityType
    <2>2. QED
        BY ONLY <1>1, <2>1
<1>4. IsMoved(order', order, Tile, drag, over)
    BY ONLY <1>1, <1>2, <1>3, Moved
<1>5. QED
    BY <1>4 DEF IsMoved

LEMMA TilesStep == TilesInv /\ [TilesNext]_tilesVars => TilesInv'
<1> SUFFICES ASSUME TilesInv, [TilesNext]_tilesVars
             PROVE  TilesInv'
    OBVIOUS
<1>0. /\ order \in Seq(Tile) /\ IsInjective(order) /\ installed \subseteq ToSet(order)
      /\ drag \in ToSet(order) \union {NoDrag} /\ over \in -1..Cardinality(Tile) - 1
      /\ Cardinality(Tile) \in Nat
    BY TilesAssumption, FS_CardinalityType DEF TilesInv
<1>1. CASE PollTiles
    <2>1. /\ installed' \in SUBSET Tile /\ order' = order \o Missing(installed', order)
          /\ UNCHANGED <<drag, over>>
        BY <1>1 DEF PollTiles
    <2>2. /\ order' \in Seq(Tile) /\ IsInjective(order')
          /\ ToSet(order) \subseteq ToSet(order') /\ installed' \subseteq ToSet(order')
        BY <1>0, <2>1, Polled
    <2>3. QED
        BY <1>0, <2>1, <2>2 DEF TilesInv
<1>2. CASE StartDrag
    BY <1>0, <1>2 DEF StartDrag, TilesInv
<1>3. CASE DragOver
    <2>1. /\ over' \in 0..Cardinality(installed) - 1 /\ UNCHANGED <<installed, order, drag>>
        BY <1>3 DEF DragOver
    <2>2. installed \in SUBSET Tile
        BY <1>0 DEF ToSet
    <2>3. Cardinality(installed) <= Cardinality(Tile) /\ Cardinality(installed) \in Nat
        BY <2>2, TilesAssumption, FS_Subset, FS_CardinalityType
    <2>4. over' \in -1..Cardinality(Tile) - 1
        BY ONLY <1>0, <2>1, <2>3
    <2>5. QED
        BY <1>0, <2>1, <2>4 DEF TilesInv
<1>4. CASE handleDrop
    <2>1. over' = -1 /\ drag' = NoDrag /\ UNCHANGED installed /\ -1 \in -1..Cardinality(Tile) - 1
        BY <1>0, <1>4 DEF handleDrop
    <2>2. CASE drag = NoDrag
        <3>1. UNCHANGED order
            BY <1>4, <2>2 DEF handleDrop
        <3>2. QED
            BY <1>0, <2>1, <3>1 DEF TilesInv
    <2>3. CASE drag # NoDrag
        <3>1. order' \in Seq(Tile) /\ IsInjective(order') /\ ToSet(order') = ToSet(order)
            BY <1>4, <2>3, DropMoves
        <3>2. QED
            BY <1>0, <2>1, <3>1 DEF TilesInv
    <2>4. QED
        BY <2>2, <2>3
<1>5. CASE ReloadTiles
    <2>1. -1 \in -1..Cardinality(Tile) - 1
        BY <1>0
    <2>2. QED
        BY <1>0, <1>5, <2>1 DEF ReloadTiles, TilesInv
<1>6. CASE UNCHANGED tilesVars
    BY <1>0, <1>6 DEF tilesVars, TilesInv
<1>7. QED
    BY <1>1, <1>2, <1>3, <1>4, <1>5, <1>6 DEF TilesNext

\* Every reachable state of the dashboard satisfies the invariant.
THEOREM TilesInvariance == TilesSpec => []TilesInv
<1>1. TilesInit => TilesInv
    BY TilesInitially
<1>2. TilesInv /\ [TilesNext]_tilesVars => TilesInv'
    BY TilesStep
<1>3. QED
    BY <1>1, <1>2, PTL DEF TilesSpec

LEMMA TilesTyped == TilesInv => TilesTypeOK
<1> SUFFICES ASSUME TilesInv
             PROVE  TilesTypeOK
    OBVIOUS
<1>1. ToSet(order) \subseteq Tile
    BY DEF TilesInv, ToSet
<1>2. QED
    BY <1>1 DEF TilesInv, TilesTypeOK

\* A step keeps the places of every two tiles, but those of a tile dropped.
LEMMA TilesStayStep ==
    ASSUME TilesInv, [TilesNext]_tilesVars
    PROVE  /\ \A a, b \in ToSet(order) :
                 At(order, a) < At(order, b) =>
                     At(order', a) < At(order', b) \/ (Dropped /\ drag \in {a, b})
           /\ Dropped /\ ToSet(order) = installed /\ drag \in installed =>
                 sortedApps(installed', order')[over + 1] = drag
<1>0. order \in Seq(Tile) /\ IsInjective(order)
    BY DEF TilesInv
<1>1. CASE PollTiles
    <2>1. /\ installed' \in SUBSET Tile /\ order' = order \o Missing(installed', order)
          /\ UNCHANGED <<drag, over>>
        BY <1>1 DEF PollTiles
    <2>2. \A a \in ToSet(order) : At(order', a) = At(order, a)
        BY <1>0, <2>1, Polled
    <2>3. ~Dropped
        BY <2>1 DEF Dropped
    <2>4. QED
        BY <2>2, <2>3
<1>2. CASE StartDrag \/ DragOver \/ ReloadTiles \/ UNCHANGED tilesVars
    <2>1. UNCHANGED order
        BY <1>2 DEF StartDrag, DragOver, ReloadTiles, tilesVars
    <2>2. ~(Dropped /\ drag \in installed)
        <3>1. CASE StartDrag \/ UNCHANGED tilesVars
            BY <3>1 DEF StartDrag, tilesVars, Dropped
        <3>2. CASE DragOver
            <4>1. over' \in 0..Cardinality(installed) - 1
                BY <3>2 DEF DragOver
            <4>2. over' # -1
                BY <4>1
            <4>3. QED
                BY <4>2 DEF Dropped
        <3>3. CASE ReloadTiles
            BY <3>3 DEF ReloadTiles, Dropped
        <3>4. QED
            BY <1>2, <3>1, <3>2, <3>3
    <2>3. QED
        BY <2>1, <2>2
<1>3. CASE handleDrop
    <2>1. over \in 0..Cardinality(installed) - 1 /\ over' = -1 /\ UNCHANGED installed
        BY <1>3 DEF handleDrop
    <2>2. CASE drag = NoDrag
        <3>1. UNCHANGED order /\ ~Dropped
            BY <1>3, <2>2 DEF handleDrop, Dropped
        <3>2. QED
            BY <3>1
    <2>3. CASE drag # NoDrag
        <3>1. over # -1
            BY <2>1
        <3>2. Dropped
            BY <2>1, <2>3, <3>1 DEF Dropped
        <3>3. /\ order' \in Seq(Tile) /\ IsInjective(order') /\ ToSet(order') = ToSet(order)
              /\ \A b, c \in ToSet(order) \ {drag} :
                    At(order, b) < At(order, c) => At(order', b) < At(order', c)
              /\ over < Len(order) => order'[over + 1] = drag
            BY <1>3, <2>3, DropMoves
        <3>4. \A a, b \in ToSet(order) :
                 At(order, a) < At(order, b) => At(order', a) < At(order', b) \/ drag \in {a, b}
            BY <3>3
        <3>5. ASSUME ToSet(order) = installed
              PROVE  sortedApps(installed', order')[over + 1] = drag
            <4>1. sortedApps(installed', order') = order'
                <5>1. \A i \in 1..Len(order') : order'[i] \in installed'
                    <6>1. DOMAIN order' = 1..Len(order') /\ installed' = ToSet(order')
                        BY <2>1, <3>3, <3>5
                    <6>2. QED
                        BY <6>1 DEF ToSet
                <5>2. QED
                    BY <3>3, <5>1, AllAreKept DEF sortedApps
            <4>2. Cardinality(installed) = Len(order) /\ Len(order) \in Nat
                BY <1>0, <3>5, OneEach
            <4>3. over < Len(order)
                BY ONLY <2>1, <4>2
            <4>4. QED
                BY <3>3, <4>1, <4>3
        <3>6. QED
            BY <3>2, <3>4, <3>5
    <2>4. QED
        BY <2>2, <2>3
<1>4. QED
    BY <1>1, <1>2, <1>3 DEF TilesNext

\* A poll, a removal, an installation and a reload leave every two tiles of
\* the dashboard in their order: only the drop of one of them changes it,
\* and it lands where it was dropped when all are shown.
THEOREM TilesMoveOnlyByDrop == TilesSpec => TilesMoveByDrop
<1>1. TilesSpec => []TilesInv
    BY TilesInvariance
<1>2. TilesInv /\ [TilesNext]_tilesVars =>
         [/\ \A a, b \in ToSet(order) :
                At(order, a) < At(order, b) =>
                    At(order', a) < At(order', b) \/ (Dropped /\ drag \in {a, b})
          /\ Dropped /\ ToSet(order) = installed /\ drag \in installed =>
                sortedApps(installed', order')[over + 1] = drag]_tilesVars
    BY TilesStayStep
<1>3. QED
    BY <1>1, <1>2, PTL DEF TilesSpec, TilesMoveByDrop

-----------------------------------------------------------------------------
(* StoreListing: the invariant.  What the cards show is what the server    *)
(* lists because every page cached is the slice of the results at its      *)
(* place: the next page is asked for only when the ones there are are      *)
(* whole, so that their length is where it begins.                         *)

ListingView ==
    [page : {"listing", "error", "away"}, search : Text, debounced : Text, typing : BOOLEAN,
     choice : Choice, featured : {0, 1}]
CachedPages == [got : Seq(Seq(StoreApp)), total : Nat, status : {"pending", "success", "error"},
                stale : BOOLEAN, drift : BOOLEAN]
Fetches == {"no", "all", "next"}

ListingState ==
    /\ catalog \in Seq(StoreApp)
    /\ view \in ListingView
    /\ pages \in [Filter -> CachedPages]
    /\ fetch \in [Filter -> Fetches]

\* What is searched for differs from what was typed only while a timer runs.
SearchSettles == ~view.typing => view.search = view.debounced

\* The next page is under way only where there is one.
AwaitsNext == \A f \in Filter : fetch[f] = "next" => hasNextPage(pages[f])

\* A slice of PAGE_SIZE of a list of results, and the pages that are theirs.
Slice(r, o) == SubSeq(r, o + 1, Least(o + PAGE_SIZE, Len(r)))
SlicesOf(p, r) == \A i \in 1..Len(p.got) : p.got[i] = Slice(r, (i - 1) * PAGE_SIZE)
HoldsOf(p, r) == p.got # << >> /\ ~p.drift => p.total = Len(r) /\ SlicesOf(p, r)
PagesHold == \A f \in Filter : HoldsOf(pages[f], Results(f))

ListingInv == ListingState /\ SearchSettles /\ AwaitsNext /\ PagesHold

LEMMA PageSize == PAGE_SIZE \in Nat \ {0} /\ PAGE_SIZE \in Nat
    BY ListingAssumption

\* The results of a filter, and their slices.
LEMMA ResultsAreApps ==
    ASSUME catalog \in Seq(StoreApp)
    PROVE  \A f \in Filter : Results(f) \in Seq(StoreApp) /\ Len(Results(f)) \in Nat
    BY FilteredIsThinned DEF Results

LEMMA SliceIsSeq ==
    ASSUME NEW r \in Seq(StoreApp), NEW o \in Nat
    PROVE  Slice(r, o) \in Seq(StoreApp)
<1>1. PICK L \in Nat : L = Len(r)
    OBVIOUS
<1>2. PICK b \in Nat : b = Least(o + PAGE_SIZE, L) /\ b <= L
    BY ONLY PageSize, o \in Nat, L \in Nat DEF Least
<1>3. \A i \in o + 1..b : r[i] \in StoreApp
    BY <1>1, <1>2
<1>4. SubSeq(r, o + 1, b) \in Seq(StoreApp)
    BY ONLY o \in Nat, b \in Nat, <1>3, SubSeqProperties
<1>5. QED
    BY <1>1, <1>2, <1>4 DEF Slice

\* The pages that are slices of the results are their beginning.
LEMMA PagesAreBeginning ==
    ASSUME NEW p \in CachedPages, NEW r \in Seq(StoreApp), SlicesOf(p, r)
    PROVE  flattenPages(p) = SubSeq(r, 1, Least(Len(p.got) * PAGE_SIZE, Len(r)))
<1>1. PICK q \in Seq(Seq(StoreApp)) : q = p.got
    BY DEF CachedPages
<1>2. PICK P \in Nat \ {0} : P = PAGE_SIZE
    BY PageSize
<1>3. InSlices(q, r, P)
    BY <1>1, <1>2 DEF SlicesOf, Slice, InSlices
<1>4. FlattenSeq(q) = SubSeq(r, 1, Least(Len(q) * P, Len(r)))
    BY <1>3, SlicesJoin
<1>5. QED
    BY <1>1, <1>2, <1>4 DEF flattenPages

LEMMA FlattenedPages ==
    ASSUME NEW p \in CachedPages
    PROVE  flattenPages(p) \in Seq(StoreApp) /\ (p.got = << >> => flattenPages(p) = << >>)
    BY FlattenIsSeq DEF flattenPages, CachedPages

\* How long the beginning of the results is, when there is more and when not.
BeginsWith(r, q, a) ==
    /\ Len(q) \in Nat /\ Len(q) <= Len(r) /\ q = SubSeq(r, 1, Len(q))
    /\ Len(q) < Len(r) => Len(q) = a
    /\ ~(Len(q) < Len(r)) => q = r

LEMMA BeginningOf ==
    ASSUME NEW S, NEW r \in Seq(S), NEW a \in Nat
    PROVE  BeginsWith(r, SubSeq(r, 1, Least(a, Len(r))), a)
<1>0. PICK L \in Nat : L = Len(r)
    OBVIOUS
<1> DEFINE q == SubSeq(r, 1, Least(a, Len(r)))
<1>1. PICK b \in Nat : b = Least(a, L) /\ b <= L /\ (b < L => b = a)
    BY ONLY a \in Nat, L \in Nat DEF Least
<1>2. \A i \in 1..b : r[i] \in S
    BY <1>0, <1>1
<1>3. Len(SubSeq(r, 1, b)) = b
    <2>1. Len(SubSeq(r, 1, b)) = IF 1 <= b THEN b - 1 + 1 ELSE 0
        BY ONLY <1>2, b \in Nat, SubSeqProperties
    <2>2. QED
        BY ONLY <2>1, b \in Nat
<1>4. q = SubSeq(r, 1, b) /\ Len(q) = b
    BY <1>0, <1>1, <1>3
<1>5. ASSUME ~(b < L)
      PROVE  q = r
    <2>1. b = L
        BY ONLY <1>1, <1>5, L \in Nat, b \in Nat
    <2>2. QED
        BY <1>0, <1>4, <2>1, SubSeqFull
<1> HIDE DEF q
<1>6. BeginsWith(r, q, a)
    BY ONLY <1>0, <1>1, <1>4, <1>5 DEF BeginsWith
<1>7. QED
    BY <1>6 DEF q

\* A fetch of all the pages there were, or of the first.
LEMMA RefetchedInSlices ==
    ASSUME catalog \in Seq(StoreApp), NEW f \in Filter, NEW n \in Nat \ {0}
    PROVE  /\ RefetchedPages(f, n) \in Seq(Seq(StoreApp)) /\ RefetchedPages(f, n) # << >>
           /\ \A i \in 1..Len(RefetchedPages(f, n)) :
                 RefetchedPages(f, n)[i] = Slice(Results(f), (i - 1) * PAGE_SIZE)
<1> DEFINE whole == {k \in 1..n : k = 1 \/ (k - 1) * PAGE_SIZE < Len(Results(f))}
<1>1. PICK m \in Nat \ {0} : m = Cardinality(whole)
    <2>1. IsFiniteSet(1..n) /\ whole \in SUBSET (1..n)
        BY FS_Interval
    <2>2. IsFiniteSet(whole) /\ Cardinality(whole) \in Nat
        BY <2>1, FS_Subset, FS_CardinalityType
    <2>3. 1 \in whole
        OBVIOUS
    <2>4. Cardinality(whole) # 0
        BY <2>2, <2>3, FS_EmptySet
    <2>5. QED
        BY <2>2, <2>4
<1> DEFINE q == [i \in 1..m |-> PageAt(f, (i - 1) * PAGE_SIZE)]
<1>2. RefetchedPages(f, n) = q
    BY <1>1 DEF RefetchedPages
<1> HIDE DEF whole
<1>3. \A i \in 1..m : /\ PageAt(f, (i - 1) * PAGE_SIZE) = Slice(Results(f), (i - 1) * PAGE_SIZE)
                      /\ Slice(Results(f), (i - 1) * PAGE_SIZE) \in Seq(StoreApp)
    <2>1. TAKE i \in 1..m
    <2>2. (i - 1) * PAGE_SIZE \in Nat
        <3>1. PAGE_SIZE \in Nat /\ i - 1 \in Nat
            BY PageSize
        <3>2. QED
            BY <3>1
    <2>3. Results(f) \in Seq(StoreApp)
        BY ResultsAreApps
    <2>4. Slice(Results(f), (i - 1) * PAGE_SIZE) \in Seq(StoreApp)
        BY <2>2, <2>3, SliceIsSeq
    <2>5. QED
        BY <2>4 DEF PageAt, Slice
<1>4. q \in Seq(Seq(StoreApp)) /\ Len(q) = m
    BY <1>3
<1>5. \A i \in 1..m : q[i] = Slice(Results(f), (i - 1) * PAGE_SIZE)
    BY <1>3
<1> HIDE DEF q
<1>6. q # << >>
    BY <1>4
<1>7. QED
    BY <1>2, <1>4, <1>5, <1>6

\* What an answer makes of the pages of its filter.
LEMMA ArrivesInSlices ==
    ASSUME ListingInv, NEW f \in Filter, fetch[f] # "no"
    PROVE  /\ Arrives(f) \in [Filter -> CachedPages]
           /\ \A g \in Filter : HoldsOf(Arrives(f)[g], Results(g))
           /\ \A g \in Filter \ {f} : Arrives(f)[g] = pages[g]
<1> DEFINE p == pages[f]
           r == Results(f)
<1>0. /\ catalog \in Seq(StoreApp) /\ pages \in [Filter -> CachedPages] /\ fetch[f] \in {"all", "next"}
      /\ p \in CachedPages /\ r \in Seq(StoreApp) /\ Len(r) \in Nat
    <2>1. /\ catalog \in Seq(StoreApp) /\ pages \in [Filter -> CachedPages] /\ fetch \in [Filter -> Fetches]
        BY DEF ListingInv, ListingState
    <2>2. fetch[f] \in {"all", "next"}
        BY <2>1 DEF Fetches
    <2>3. QED
        BY <2>1, <2>2, ResultsAreApps
<1> DEFINE got == IF fetch[f] = "all"
                  THEN RefetchedPages(f, IF p.got = << >> THEN 1 ELSE Len(p.got))
                  ELSE Append(p.got, PageAt(f, Len(flattenPages(p))))
           q == [p EXCEPT !.total = Len(r), !.status = "success", !.got = got,
                          !.stale = FALSE, !.drift = fetch[f] = "next" /\ p.drift]
<1>1. Arrives(f) = [pages EXCEPT ![f] = q]
    BY DEF Arrives
<1>2. /\ got \in Seq(Seq(StoreApp)) /\ got # << >>
      /\ ~(fetch[f] = "next" /\ p.drift) =>
            \A i \in 1..Len(got) : got[i] = Slice(r, (i - 1) * PAGE_SIZE)
    <2>1. CASE fetch[f] = "all"
        <3>1. PICK n \in Nat \ {0} : n = IF p.got = << >> THEN 1 ELSE Len(p.got)
            <4>1. p.got \in Seq(Seq(StoreApp))
                BY <1>0 DEF CachedPages
            <4>2. PICK L \in Nat : L = Len(p.got)
                BY <4>1
            <4>3. p.got # << >> => L # 0
                BY <4>1, <4>2, EmptySeq
            <4>4. QED
                BY ONLY <4>2, <4>3, L \in Nat
        <3>2. got = RefetchedPages(f, n)
            BY <2>1, <3>1
        <3> HIDE DEF got, p, r
        <3>3. QED
            BY <1>0, <3>2, RefetchedInSlices DEF r
    <2>2. CASE fetch[f] = "next"
        <3>1. /\ p.got # << >> /\ Len(flattenPages(p)) < p.total
              /\ p.got \in Seq(Seq(StoreApp)) /\ Len(p.got) \in Nat
            BY <1>0, <2>2 DEF ListingInv, AwaitsNext, hasNextPage, CachedPages
        <3>2. flattenPages(p) \in Seq(StoreApp) /\ Len(flattenPages(p)) \in Nat
            BY <1>0, FlattenedPages
        <3> DEFINE o == Len(flattenPages(p))
                   next == Slice(r, o)
        <3>3. got = Append(p.got, next)
            BY <2>2 DEF PageAt, Slice
        <3>4. next \in Seq(StoreApp)
            BY <1>0, <3>2, SliceIsSeq
        <3> HIDE DEF next, got
        <3>5. /\ got \in Seq(Seq(StoreApp)) /\ got # << >> /\ Len(got) = Len(p.got) + 1
              /\ got[Len(p.got) + 1] = next /\ \A i \in 1..Len(p.got) : got[i] = p.got[i]
            <4>1. PICK x \in Seq(Seq(StoreApp)) : x = p.got
                BY <3>1
            <4>2. /\ Append(x, next) \in Seq(Seq(StoreApp)) /\ Append(x, next) # << >>
                  /\ Len(Append(x, next)) = Len(x) + 1
                  /\ Append(x, next)[Len(x) + 1] = next
                  /\ \A i \in 1..Len(x) : Append(x, next)[i] = x[i]
                BY ONLY <3>4, AppendProperties
            <4>3. QED
                BY ONLY <3>3, <4>1, <4>2
        <3>6. ASSUME ~p.drift
              PROVE  \A i \in 1..Len(got) : got[i] = Slice(r, (i - 1) * PAGE_SIZE)
            <4>1. p.total = Len(r) /\ SlicesOf(p, r)
                BY <3>1, <3>6 DEF ListingInv, PagesHold, HoldsOf
            <4>2. PICK n \in Nat, a \in Nat : n = Len(p.got) /\ a = n * PAGE_SIZE
                BY <3>1, PageSize
            <4>3. flattenPages(p) = SubSeq(r, 1, Least(a, Len(r)))
                BY <1>0, <4>1, <4>2, PagesAreBeginning
            <4>4. o = a
                <5>1. BeginsWith(r, flattenPages(p), a)
                    BY ONLY <1>0, <4>2, <4>3, BeginningOf
                <5>2. QED
                    BY ONLY <3>1, <4>1, <5>1 DEF BeginsWith
            <4>5. got[n + 1] = Slice(r, n * PAGE_SIZE)
                BY <3>5, <4>2, <4>4 DEF next
            <4>6. \A i \in 1..n : got[i] = Slice(r, (i - 1) * PAGE_SIZE)
                BY <3>5, <4>1, <4>2 DEF SlicesOf
            <4>7. ASSUME NEW i \in 1..n + 1
                  PROVE  got[i] = Slice(r, (i - 1) * PAGE_SIZE)
                <5>1. CASE i = n + 1
                    <6>1. i - 1 = n
                        BY <5>1
                    <6>2. QED
                        BY ONLY <4>5, <5>1, <6>1
                <5>2. CASE i # n + 1
                    <6>1. i \in 1..n
                        BY ONLY <5>2, n \in Nat, i \in 1..n + 1
                    <6>2. QED
                        BY ONLY <4>6, <6>1
                <5>3. QED
                    BY <5>1, <5>2
            <4>8. Len(got) = n + 1
                BY <3>5, <4>2
            <4>9. QED
                BY ONLY <4>7, <4>8
        <3>7. QED
            BY <2>2, <3>5, <3>6
    <2>3. QED
        BY <1>0, <2>1, <2>2
<1> HIDE DEF got
<1>3. /\ q \in CachedPages /\ q.got = got /\ q.total = Len(r)
      /\ q.drift = (fetch[f] = "next" /\ p.drift)
    BY <1>0, <1>2 DEF CachedPages
<1> HIDE DEF q
<1>4. HoldsOf(q, r)
    BY <1>2, <1>3 DEF HoldsOf, SlicesOf
<1>5. /\ Arrives(f) \in [Filter -> CachedPages] /\ Arrives(f)[f] = q
      /\ \A g \in Filter \ {f} : Arrives(f)[g] = pages[g]
    BY <1>0, <1>1, <1>3
<1>6. \A g \in Filter : HoldsOf(pages[g], Results(g))
    BY DEF ListingInv, PagesHold
<1>7. \A g \in Filter : HoldsOf(Arrives(f)[g], Results(g))
    BY <1>4, <1>5, <1>6
<1>8. QED
    BY <1>5, <1>7

\* What is shown after a change of the view or of the pages.
LEMMA RenderingKeeps ==
    ASSUME NEW v \in ListingView, NEW ps \in [Filter -> CachedPages], Rendering(v, ps)
    PROVE  /\ view' \in ListingView /\ view'.search = v.search /\ view'.debounced = v.debounced
           /\ view'.typing = v.typing
           /\ pages' \in [Filter -> CachedPages]
           /\ \A f \in Filter : pages'[f] = ps[f] \/ (ps[f].got = << >> /\ pages'[f].got = << >>)
<1>1. \/ view' = v \/ view' = [v EXCEPT !.featured = 0]
      \/ view' = [v EXCEPT !.page = "error", !.featured = 0]
    BY DEF Rendering
<1>2. /\ view' \in ListingView /\ view'.search = v.search /\ view'.debounced = v.debounced
      /\ view'.typing = v.typing
    BY <1>1 DEF ListingView
<1>3. Unseen \in CachedPages /\ Unseen.got = << >>
    <2>1. << >> \in Seq(Seq(StoreApp))
        OBVIOUS
    <2>2. QED
        BY <2>1 DEF Unseen, CachedPages
<1>4. pages' = [f \in Filter |-> IF v.page = "listing" /\ f = Current(v) /\ ps[f].got = << >>
                                 THEN Unseen ELSE ps[f]]
    BY DEF Rendering
<1> HIDE DEF Unseen
<1>5. pages' \in [Filter -> CachedPages]
    BY <1>3, <1>4
<1>6. \A f \in Filter : pages'[f] = ps[f] \/ (ps[f].got = << >> /\ pages'[f].got = << >>)
    BY <1>3, <1>4
<1>7. QED
    BY <1>2, <1>5, <1>6

LEMMA CurrentIsFilter == \A v \in ListingView : Current(v) \in Filter
    BY DEF ListingView, Current, Filter

\* Looking at a filter fetches all its pages, or nothing.
LEMMA ObservedKeeps ==
    ASSUME NEW v \in ListingView, NEW ps, NEW fs \in [Filter -> Fetches]
    PROVE  /\ Observed(v, ps, fs) \in [Filter -> Fetches]
           /\ \A f \in Filter : Observed(v, ps, fs)[f] = "next" => fs[f] = "next"
<1>1. Current(v) \in Filter
    BY CurrentIsFilter
<1>2. Observed(v, ps, fs) = fs \/ Observed(v, ps, fs) = [fs EXCEPT ![Current(v)] = "all"]
    BY DEF Observed
<1>3. QED
    BY <1>1, <1>2 DEF Fetches

\* The invariant after a rendering of pages that hold.
LEMMA RenderedKeepsInv ==
    ASSUME ListingInv, UNCHANGED catalog,
           NEW v \in ListingView, ~v.typing => v.search = v.debounced,
           NEW ps \in [Filter -> CachedPages], Rendering(v, ps),
           \A f \in Filter : HoldsOf(ps[f], Results(f)),
           fetch' \in [Filter -> Fetches],
           \A f \in Filter : fetch'[f] = "next" => hasNextPage(ps[f])
    PROVE  ListingInv'
<1>1. /\ view' \in ListingView /\ view'.search = v.search /\ view'.debounced = v.debounced
      /\ view'.typing = v.typing
      /\ pages' \in [Filter -> CachedPages]
      /\ \A f \in Filter : pages'[f] = ps[f] \/ (ps[f].got = << >> /\ pages'[f].got = << >>)
    BY RenderingKeeps
<1>2. ListingState'
    BY <1>1 DEF ListingInv, ListingState
<1>3. SearchSettles'
    BY <1>1 DEF SearchSettles
<1>4. AwaitsNext'
    <2>1. \A f \in Filter : fetch'[f] = "next" => pages'[f] = ps[f]
        BY <1>1 DEF hasNextPage
    <2>2. QED
        BY <2>1 DEF AwaitsNext
<1>5. PagesHold'
    <2>1. \A f \in Filter : Results(f)' = Results(f)
        BY DEF Results
    <2>2. \A f \in Filter : HoldsOf(pages'[f], Results(f))
        BY <1>1 DEF HoldsOf
    <2>3. QED
        BY <2>1, <2>2 DEF PagesHold
<1>6. QED
    BY <1>2, <1>3, <1>4, <1>5 DEF ListingInv

LEMMA OpenedIsShown == Opened \in ListingView /\ [Opened EXCEPT !.page = "away"] \in ListingView
    BY ListingAssumption DEF Opened, ListingView

LEMMA ListingInitially == ListingInit => ListingInv
<1> SUFFICES ASSUME ListingInit
             PROVE  ListingInv
    OBVIOUS
<1>1. catalog \in Seq(StoreApp)
    <2>1. IsFiniteSet(StoreApp \ {NewestApp})
        BY ListingAssumption, FS_Subset
    <2>2. QED
        BY <2>1, SetInSequence DEF ListingInit
<1>2. view \in ListingView /\ view.search = view.debounced
    BY OpenedIsShown DEF ListingInit, Opened
<1>3. pages \in [Filter -> CachedPages] /\ \A f \in Filter : pages[f].got = << >>
    BY DEF ListingInit, Unseen, CachedPages
<1>4. fetch \in [Filter -> Fetches] /\ \A f \in Filter : fetch[f] # "next"
    <2> DEFINE none == [f \in Filter |-> "no"]
    <2>1. none \in [Filter -> Fetches] /\ \A f \in Filter : none[f] # "next"
        BY DEF Fetches
    <2>2. fetch = Observed(Opened, pages, none)
        BY DEF ListingInit
    <2> HIDE DEF none
    <2>3. QED
        BY <2>1, <2>2, ObservedKeeps, OpenedIsShown
<1>5. QED
    BY <1>1, <1>2, <1>3, <1>4
       DEF ListingInv, ListingState, SearchSettles, AwaitsNext, PagesHold, HoldsOf

\* Another text, another filter, the way back: the pages stay as they are.
LEMMA ShowKeepsInv ==
    ASSUME ListingInv, UNCHANGED catalog,
           NEW v \in ListingView, ~v.typing => v.search = v.debounced, ShowListing(v)
    PROVE  ListingInv'
<1>1. /\ pages \in [Filter -> CachedPages] /\ fetch \in [Filter -> Fetches]
      /\ Rendering(v, pages) /\ fetch' = Observed(v, pages, fetch)
    BY DEF ListingInv, ListingState, ShowListing
<1>2. /\ fetch' \in [Filter -> Fetches]
      /\ \A f \in Filter : fetch'[f] = "next" => hasNextPage(pages[f])
    BY <1>1, ObservedKeeps DEF ListingInv, AwaitsNext
<1>3. \A f \in Filter : HoldsOf(pages[f], Results(f))
    BY DEF ListingInv, PagesHold
<1>4. QED
    BY <1>1, <1>2, <1>3, RenderedKeepsInv

\* The pages of a filter change in what is not their results.
LEMMA SamePagesKeepInv ==
    ASSUME ListingInv, view' \in ListingView, SearchSettles',
           UNCHANGED catalog,
           pages' \in [Filter -> CachedPages],
           \A f \in Filter : /\ pages'[f].got = pages[f].got /\ pages'[f].total = pages[f].total
                             /\ pages'[f].drift = pages[f].drift,
           fetch' \in [Filter -> Fetches],
           \A f \in Filter : fetch'[f] = "next" => hasNextPage(pages[f])
    PROVE  ListingInv'
<1>1. ListingState'
    BY DEF ListingInv, ListingState
<1>2. AwaitsNext'
    BY DEF AwaitsNext, hasNextPage, flattenPages
<1>3. PagesHold'
    <2>1. \A f \in Filter : Results(f)' = Results(f)
        BY DEF Results
    <2>2. \A f \in Filter : HoldsOf(pages'[f], Results(f))
        BY DEF ListingInv, PagesHold, HoldsOf, SlicesOf
    <2>3. QED
        BY <2>1, <2>2 DEF PagesHold
<1>4. QED
    BY <1>1, <1>2, <1>3 DEF ListingInv

\* A page that goes stale, or that the catalog has left behind.
LEMMA MarkedPages ==
    ASSUME NEW p \in CachedPages
    PROVE  /\ LET q == [p EXCEPT !.stale = p.got # << >>]
              IN  q \in CachedPages /\ q.got = p.got /\ q.total = p.total /\ q.drift = p.drift
           /\ LET q == [p EXCEPT !.drift = p.got # << >>]
              IN  q \in CachedPages /\ q.got = p.got /\ q.total = p.total /\ q.drift = (p.got # << >>)
<1>1. PICK b \in BOOLEAN : b = (p.got # << >>)
    OBVIOUS
<1>2. /\ LET q == [p EXCEPT !.stale = b]
         IN  q \in CachedPages /\ q.got = p.got /\ q.total = p.total /\ q.drift = p.drift
      /\ LET q == [p EXCEPT !.drift = b]
         IN  q \in CachedPages /\ q.got = p.got /\ q.total = p.total /\ q.drift = b
    BY DEF CachedPages
<1>3. QED
    BY ONLY <1>1, <1>2

LEMMA ListingStep == ListingInv /\ [ListingNext]_listingVars => ListingInv'
<1> SUFFICES ASSUME ListingInv, [ListingNext]_listingVars
             PROVE  ListingInv'
    OBVIOUS
<1>0. /\ catalog \in Seq(StoreApp) /\ view \in ListingView /\ SearchSettles
      /\ pages \in [Filter -> CachedPages] /\ fetch \in [Filter -> Fetches]
      /\ \A f \in Filter : fetch[f] = "next" => hasNextPage(pages[f])
      /\ Current(view) \in Filter
    BY CurrentIsFilter DEF ListingInv, ListingState, AwaitsNext
<1>1. CASE Type
    <2>1. PICK t \in Text : view' = [view EXCEPT !.search = t, !.typing = TRUE]
        BY <1>1 DEF Type
    <2>2. view' \in ListingView /\ SearchSettles' /\ UNCHANGED <<catalog, pages, fetch>>
        BY <1>0, <1>1, <2>1 DEF Type, ListingView, SearchSettles
    <2>3. QED
        BY <1>0, <2>2, SamePagesKeepInv
<1>2. CASE DebounceSearch
    <2> DEFINE v == [view EXCEPT !.debounced = view.search, !.typing = FALSE]
    <2>1. v \in ListingView /\ v.search = v.debounced
        BY <1>0 DEF ListingView
    <2>2. ShowListing(v) /\ UNCHANGED catalog
        BY <1>2 DEF DebounceSearch
    <2> HIDE DEF v
    <2>3. QED
        BY <2>1, <2>2, ShowKeepsInv
<1>3. CASE ChooseFilter
    <2>1. PICK c \in Choice : ShowListing([view EXCEPT !.choice = c])
        BY <1>3 DEF ChooseFilter
    <2> DEFINE v == [view EXCEPT !.choice = c]
    <2>2. v \in ListingView /\ (~v.typing => v.search = v.debounced)
        BY <1>0 DEF ListingView, SearchSettles
    <2>3. ShowListing(v) /\ UNCHANGED catalog
        BY <1>3, <2>1 DEF ChooseFilter
    <2> HIDE DEF v
    <2>4. QED
        BY <2>2, <2>3, ShowKeepsInv
<1>4. CASE GoToFeatured
    <2>1. PICK i \in 0..Len(getFeaturedApplications(pages[Current(view)])) - 1 :
             view' = [view EXCEPT !.featured = i]
        BY <1>4 DEF GoToFeatured
    <2>2. PICK cards \in Seq(StoreApp) : cards = flattenPages(pages[Current(view)])
        BY <1>0, FlattenedPages
    <2>3. Len(getFeaturedApplications(pages[Current(view)])) \in 0..2
        <3>0. PICK L \in Nat : L = Len(cards)
            BY <2>2
        <3>1. PICK n \in 0..2 : n = Least(2, L) /\ n <= L
            BY ONLY L \in Nat DEF Least
        <3>2. \A k \in 1..n : cards[k] \in StoreApp
            BY <2>2, <3>0, <3>1
        <3>3. Len(SubSeq(cards, 1, n)) = IF 1 <= n THEN n - 1 + 1 ELSE 0
            BY ONLY <3>2, n \in 0..2, SubSeqProperties
        <3>4. getFeaturedApplications(pages[Current(view)]) = SubSeq(cards, 1, n)
            BY <2>2, <3>0, <3>1 DEF getFeaturedApplications
        <3>5. QED
            BY ONLY <3>3, <3>4, n \in 0..2
    <2>4. i \in {0, 1}
        <3>1. PICK m \in 0..2 : m = Len(getFeaturedApplications(pages[Current(view)]))
            BY <2>3
        <3>2. i \in 0..m - 1
            BY <2>1, <3>1
        <3>3. QED
            BY ONLY <3>2, m \in 0..2
    <2>5. view' \in ListingView /\ SearchSettles' /\ UNCHANGED <<catalog, pages, fetch>>
        BY <1>0, <1>4, <2>1, <2>4 DEF GoToFeatured, ListingView, SearchSettles
    <2>6. QED
        BY <1>0, <2>5, SamePagesKeepInv
<1>5. CASE FetchNextPage
    <2>1. /\ hasNextPage(pages[Current(view)]) /\ fetch' = [fetch EXCEPT ![Current(view)] = "next"]
          /\ UNCHANGED <<catalog, view, pages>>
        BY <1>5 DEF FetchNextPage
    <2>2. /\ fetch' \in [Filter -> Fetches]
          /\ \A f \in Filter : fetch'[f] = "next" => hasNextPage(pages[f])
        BY <1>0, <2>1 DEF Fetches
    <2>3. SearchSettles'
        BY <1>0, <2>1 DEF SearchSettles
    <2>4. QED
        BY <1>0, <2>1, <2>2, <2>3, SamePagesKeepInv
<1>6. CASE LeaveListing
    <2>1. view' = [Opened EXCEPT !.page = "away"] /\ UNCHANGED <<catalog, pages, fetch>>
        BY <1>6 DEF LeaveListing
    <2>2. view' \in ListingView /\ SearchSettles'
        BY <2>1, OpenedIsShown DEF Opened, SearchSettles
    <2>3. QED
        BY <1>0, <2>1, <2>2, SamePagesKeepInv
<1>7. CASE OpenListing
    <2>1. ShowListing(Opened) /\ UNCHANGED catalog
        BY <1>7 DEF OpenListing
    <2>2. Opened \in ListingView /\ Opened.search = Opened.debounced
        BY OpenedIsShown DEF Opened
    <2>3. QED
        BY <2>1, <2>2, ShowKeepsInv
<1>8. CASE PagesArrive
    <2>1. PICK f \in Filter : /\ fetch[f] # "no" /\ Rendering(view, Arrives(f))
                              /\ fetch' = [fetch EXCEPT ![f] = "no"]
        BY <1>8 DEF PagesArrive
    <2>2. /\ Arrives(f) \in [Filter -> CachedPages]
          /\ \A g \in Filter : HoldsOf(Arrives(f)[g], Results(g))
          /\ \A g \in Filter \ {f} : Arrives(f)[g] = pages[g]
        BY <2>1, ArrivesInSlices
    <2>3. /\ fetch' \in [Filter -> Fetches]
          /\ \A g \in Filter : fetch'[g] = "next" => g # f /\ fetch[g] = "next"
        BY <1>0, <2>1 DEF Fetches
    <2>4. \A g \in Filter : fetch'[g] = "next" => hasNextPage(Arrives(f)[g])
        BY <1>0, <2>2, <2>3
    <2>5. UNCHANGED catalog /\ (~view.typing => view.search = view.debounced)
        BY <1>0, <1>8 DEF PagesArrive, SearchSettles
    <2>6. QED
        BY <1>0, <2>1, <2>2, <2>3, <2>4, <2>5, RenderedKeepsInv
<1>9. CASE FetchFails
    <2>1. PICK f \in Filter : /\ fetch' = [fetch EXCEPT ![f] = "no"]
                              /\ pages' = [pages EXCEPT ![f].status = "error"]
        BY <1>9 DEF FetchFails
    <2>2. UNCHANGED catalog /\ (view' = view \/ view' = [view EXCEPT !.featured = 0])
        BY <1>9 DEF FetchFails
    <2>3. view' \in ListingView /\ SearchSettles'
        BY <1>0, <2>2 DEF ListingView, SearchSettles
    <2>4. /\ pages' \in [Filter -> CachedPages]
          /\ \A g \in Filter : /\ pages'[g].got = pages[g].got /\ pages'[g].total = pages[g].total
                               /\ pages'[g].drift = pages[g].drift
        BY <1>0, <2>1 DEF CachedPages
    <2>5. /\ fetch' \in [Filter -> Fetches]
          /\ \A g \in Filter : fetch'[g] = "next" => hasNextPage(pages[g])
        BY <1>0, <2>1 DEF Fetches
    <2>6. QED
        BY <2>2, <2>3, <2>4, <2>5, SamePagesKeepInv
<1>10. CASE SyncCatalog
    <2>1. /\ catalog' = <<NewestApp>> \o catalog
          /\ pages' = [f \in Filter |-> [pages[f] EXCEPT !.drift = pages[f].got # << >>]]
          /\ UNCHANGED <<view, fetch>>
        BY <1>10 DEF SyncCatalog
    <2>2. catalog' \in Seq(StoreApp)
        <3>1. NewestApp \in StoreApp
            BY ListingAssumption
        <3>2. <<NewestApp>> \in Seq(StoreApp)
            BY <3>1
        <3>3. QED
            BY <1>0, <2>1, <3>2, ConcatProperties
    <2>3. /\ pages' \in [Filter -> CachedPages]
          /\ \A f \in Filter : /\ pages'[f].got = pages[f].got /\ pages'[f].total = pages[f].total
                               /\ pages'[f].drift = (pages[f].got # << >>)
        BY ONLY <1>0, <2>1, MarkedPages
    <2>4. ListingState' /\ SearchSettles'
        BY <1>0, <2>1, <2>2, <2>3 DEF ListingState, SearchSettles
    <2>5. AwaitsNext'
        BY <1>0, <2>1, <2>3 DEF AwaitsNext, hasNextPage, flattenPages
    <2>6. PagesHold'
        BY <2>3 DEF PagesHold, HoldsOf
    <2>7. QED
        BY <2>4, <2>5, <2>6 DEF ListingInv
<1>11. CASE InvalidateListing
    <2>1. /\ pages' = [f \in Filter |-> [pages[f] EXCEPT !.stale = pages[f].got # << >>]]
          /\ fetch' = fetch \/ fetch' = [fetch EXCEPT ![Current(view)] = "all"]
          /\ UNCHANGED <<catalog, view>>
        BY <1>11 DEF InvalidateListing, Invalidate
    <2>2. /\ pages' \in [Filter -> CachedPages]
          /\ \A f \in Filter : /\ pages'[f].got = pages[f].got /\ pages'[f].total = pages[f].total
                               /\ pages'[f].drift = pages[f].drift
        BY ONLY <1>0, <2>1, MarkedPages
    <2>3. /\ fetch' \in [Filter -> Fetches]
          /\ \A f \in Filter : fetch'[f] = "next" => hasNextPage(pages[f])
        BY <1>0, <2>1 DEF Fetches
    <2>4. SearchSettles' /\ view' \in ListingView
        BY <1>0, <2>1 DEF SearchSettles
    <2>5. QED
        BY <2>1, <2>2, <2>3, <2>4, SamePagesKeepInv
<1>12. CASE UNCHANGED listingVars
    <2>1. UNCHANGED <<catalog, view, pages, fetch>> /\ SearchSettles'
        BY <1>0, <1>12 DEF listingVars, SearchSettles
    <2>2. QED
        BY <1>0, <2>1, SamePagesKeepInv
<1>13. QED
    BY <1>1, <1>2, <1>3, <1>4, <1>5, <1>6, <1>7, <1>8, <1>9, <1>10, <1>11, <1>12 DEF ListingNext

\* Every reachable state of the listing satisfies the invariant.
THEOREM ListingInvariance == ListingSpec => []ListingInv
<1>1. ListingInit => ListingInv
    BY ListingInitially
<1>2. ListingInv /\ [ListingNext]_listingVars => ListingInv'
    BY ListingStep
<1>3. QED
    BY <1>1, <1>2, PTL DEF ListingSpec

LEMMA ListingTyped == ListingInv => ListingTypeOK
<1> SUFFICES ASSUME ListingInv
             PROVE  ListingTypeOK
    OBVIOUS
<1>1. /\ view \in ListingView /\ pages \in [Filter -> CachedPages] /\ fetch \in [Filter -> Fetches]
      /\ Current(view) \in Filter
    BY CurrentIsFilter DEF ListingInv, ListingState
<1>2. ASSUME NEW f \in Filter, NEW k \in 1..Len(pages[f].got)
      PROVE  ToSet(pages[f].got[k]) \subseteq StoreApp
    <2>1. pages[f].got[k] \in Seq(StoreApp)
        BY <1>1 DEF CachedPages
    <2>2. QED
        BY <2>1 DEF ToSet
<1>3. QED
    BY <1>1, <1>2 DEF ListingTypeOK, ListingView, CachedPages, Fetches

\* What is listed on the screen is the beginning of the results.
LEMMA CardsFollow == ListingInv => CardsAreTheResults
<1> SUFFICES ASSUME ListingInv, Listed(view, pages), ~view.typing, ~pages[Current(view)].drift
             PROVE  LET cards == flattenPages(pages[Current(view)])
                        all == Results(<<view.search, view.choice>>) IN
                    IsPrefix(cards, all) /\ (hasNextPage(pages[Current(view)]) \/ cards = all)
    BY DEF CardsAreTheResults
<1> DEFINE f == Current(view)
           p == pages[f]
           cards == flattenPages(p)
           r == Results(f)
<1>1. /\ f \in Filter /\ p \in CachedPages /\ r \in Seq(StoreApp) /\ HoldsOf(p, r)
    BY CurrentIsFilter, ResultsAreApps DEF ListingInv, ListingState, PagesHold
<1>2. Results(<<view.search, view.choice>>) = r
    BY DEF ListingInv, SearchSettles, Current
<1>3. p.got # << >> /\ ~p.drift
    BY <1>1, FlattenedPages DEF Listed
<1>4. p.total = Len(r) /\ SlicesOf(p, r)
    BY <1>1, <1>3 DEF HoldsOf
<1>5. PICK a \in Nat : a = Len(p.got) * PAGE_SIZE
    <2>1. Len(p.got) \in Nat
        BY <1>1 DEF CachedPages
    <2>2. QED
        BY <2>1, PageSize
<1>6. cards = SubSeq(r, 1, Least(a, Len(r)))
    BY <1>1, <1>4, <1>5, PagesAreBeginning
<1> HIDE DEF f, p, cards, r
<1>7. BeginsWith(r, cards, a)
    BY <1>1, <1>6, BeginningOf
<1>8. cards \in Seq(StoreApp) /\ SubSeq(cards, 1, Len(cards)) = cards
    BY <1>1, FlattenedPages, SubSeqFull DEF cards
<1>9. IsPrefix(cards, r)
    BY <1>7, <1>8 DEF BeginsWith, IsPrefix
<1>10. hasNextPage(p) \/ cards = r
    BY <1>3, <1>4, <1>7 DEF BeginsWith, hasNextPage, cards
<1>11. QED
    BY <1>2, <1>9, <1>10 DEF cards, p, f

\* The cards of the store are the beginning of what the server lists for the
\* text and the filters on the screen, whatever the order of the answers, the
\* failures and the refetches.
THEOREM CardsShowResults == ListingSpec => []CardsAreTheResults
<1>1. QED
    BY ListingInvariance, CardsFollow, PTL

=============================================================================
