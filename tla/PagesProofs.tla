---------------------------- MODULE PagesProofs ----------------------------
(***************************************************************************)
(* What is proved of the pages that show what others do: signing in to     *)
(* publish a review (Reviews), beside the server's pollers, other browsers *)
(* and the settings; and the dashboard's metrics (MetricsStream), over     *)
(* broken connections, full channels and a history that forgets.  With     *)
(* what is proved of the other pages (BrowserProofs) and of the broker     *)
(* (EventBrokerProofs), the types of all of them, as MCPages composes them.*)
(*                                                                         *)
(*   - Reviews: a session taken for current by the page, or by a           *)
(*     publication under way, is the server's, since no poller comes for a *)
(*     flow that was answered; and its name, if it has one, is whose       *)
(*     review it becomes, whichever token it is posted with;               *)
(*   - MetricsStream: what follows the handler's last event is what is     *)
(*     queued, and a list is only ever continued with its next event or    *)
(*     between two samples.  The broker's part is taken from the theorems  *)
(*     about EventBroker.                                                  *)
(***************************************************************************)
EXTENDS MCPages, BrowserProofs, EventBrokerProofs, TLAPS

-----------------------------------------------------------------------------
(* Reviews: the invariant. *)

Login == Reviewer \union {NoReviewer}
SessionStatus == {"idle", "pending", "authenticated", "ended"}
Snapshot == [status : SessionStatus \union {"unknown"}, flow : 0..MaxFlows, login : Login,
             account : Login]
Form == [open : BOOLEAN, signedOut : BOOLEAN, data : Snapshot, asking : BOOLEAN, stale : BOOLEAN]
Linking == [shown : BOOLEAN, flow : 0..MaxFlows, polling : {"waits", "asks", "stopped"}]
Publishing == [shown : Login, flow : 0..MaxFlows, state : {"no", "asked", "done", "refused"},
               mine : BOOLEAN]

\* A session of the server: authenticated by an account, which is the name it
\* has, if it has one.
ServerSession(session) ==
    /\ session \in Snapshot /\ session.status \in SessionStatus
    /\ session.login \in {session.account, NoReviewer}
    /\ session.status = "authenticated" => session.account \in Reviewer

\* What the variables hold.
ReviewsState ==
    /\ ServerSession(reviewSession)
    /\ pollers \subseteq 1..reviewSession.flow
    /\ form \in Form /\ connection \in Login /\ linking \in Linking
    /\ publishing \in Publishing
    /\ \A p \in posts : p.author \in Reviewer \union {LocalUser}
    /\ upsets \in 0..MaxUpsets

\* The poller of a flow that has been answered is gone, so that no finding
\* comes for it any more.
AnswerIsLast ==
    reviewSession.status = "authenticated" => reviewSession.flow \notin pollers

\* A session the page takes for current, and shows, is the server's.
TakenForCurrent == form.data.status = "authenticated" /\ form.stale = FALSE
PageIsCurrent == undisturbed /\ TakenForCurrent => reviewSession = form.data

\* So is the one a publication was asked for with.
PublicationIsCurrent ==
    undisturbed /\ publishing.state = "asked" /\ publishing.flow # 0 =>
        /\ reviewSession.status = "authenticated"
        /\ reviewSession.flow = publishing.flow
        /\ reviewSession.login = publishing.shown

PagesAreCurrent == AnswerIsLast /\ PageIsCurrent /\ PublicationIsCurrent /\ PublishedAsShown
ReviewsInv == ReviewsState /\ PagesAreCurrent

-----------------------------------------------------------------------------
(* Reviews: the invariant is inductive. *)

\* The sessions the server begins and gives up.
LEMMA NewFlowIsASession ==
    ASSUME ReviewsState, reviewSession.flow < MaxFlows
    PROVE  /\ ServerSession(NewFlow)
           /\ NewFlow.flow = reviewSession.flow + 1
           /\ NewFlow.status = "pending"
           /\ pollers \subseteq 1..NewFlow.flow
           /\ pollers \union {NewFlow.flow} \subseteq 1..NewFlow.flow
<1>1. reviewSession.flow \in 0..MaxFlows
    BY DEF ReviewsState, ServerSession, Snapshot
<1>2. NewFlow = [status |-> "pending", flow |-> reviewSession.flow + 1, login |-> NoReviewer,
                 account |-> NoReviewer]
    <2>1. /\ DOMAIN NoSession = {"status", "flow", "login", "account"}
          /\ NoSession.login = NoReviewer /\ NoSession.account = NoReviewer
        BY DEF NoSession
    <2>2. NewFlow = [x \in {"status", "flow", "login", "account"} |->
                        IF x = "flow" THEN reviewSession.flow + 1
                        ELSE IF x = "status" THEN "pending" ELSE NoSession[x]]
        BY <2>1 DEF NewFlow
    <2>3. QED
        BY <2>1, <2>2
<1>3. reviewSession.flow + 1 \in 0..MaxFlows
    BY <1>1, ReviewsAssumption DEF ReviewsAssumption
<1>4. ServerSession(NewFlow)
    BY <1>2, <1>3 DEF ServerSession, Snapshot, SessionStatus, Login
<1>5. 1..reviewSession.flow \subseteq 1..(reviewSession.flow + 1)
    BY <1>1
<1>6. reviewSession.flow + 1 \in 1..(reviewSession.flow + 1)
    BY <1>1
<1>7. QED
    BY <1>2, <1>4, <1>5, <1>6 DEF ReviewsState

LEMMA CancelledIsASession ==
    ASSUME ReviewsState
    PROVE  /\ ServerSession(CancelledSession) /\ CancelledSession.status = "idle"
           /\ CancelledSession.flow = reviewSession.flow
<1>1. CancelledSession = [status |-> "idle", flow |-> reviewSession.flow, login |-> NoReviewer,
                          account |-> NoReviewer]
    BY DEF CancelledSession, NoSession
<1>2. reviewSession.flow \in 0..MaxFlows
    BY DEF ReviewsState, ServerSession, Snapshot
<1>3. QED
    BY <1>1, <1>2 DEF ServerSession, Snapshot, SessionStatus, Login

LEMMA UnknownIsASnapshot == UnknownSession \in Snapshot /\ UnknownSession.status = "unknown"
<1>1. UnknownSession = [status |-> "unknown", flow |-> 0, login |-> NoReviewer,
                        account |-> NoReviewer]
    BY DEF UnknownSession, NoSession
<1>2. QED
    BY <1>1, ReviewsAssumption DEF Snapshot, Login, ReviewsAssumption

\* The initial state.
LEMMA ReviewsInitially == ReviewsInit => ReviewsInv
<1> SUFFICES ASSUME ReviewsInit PROVE ReviewsInv
    OBVIOUS
<1>1. ServerSession(reviewSession) /\ reviewSession.status = "idle" /\ reviewSession.flow = 0
    BY ReviewsAssumption DEF ReviewsInit, NoSession, ServerSession, Snapshot, SessionStatus,
       Login, ReviewsAssumption
<1>2. form \in Form /\ form.data.status = "unknown"
    BY UnknownIsASnapshot DEF ReviewsInit, MountedForm, Form
<1>3. linking \in Linking
    BY ReviewsAssumption DEF ReviewsInit, NotLinking, Linking, ReviewsAssumption
<1>4. publishing \in Publishing /\ publishing.state = "no"
    BY ReviewsAssumption DEF ReviewsInit, NotPublishing, Publishing, Login, ReviewsAssumption
<1>5. ReviewsState
    BY <1>1, <1>2, <1>3, <1>4, ReviewsAssumption
       DEF ReviewsInit, ReviewsState, Login, ReviewsAssumption
<1>6. QED
    BY <1>1, <1>2, <1>4, <1>5 DEF ReviewsInit, ReviewsInv, PagesAreCurrent, AnswerIsLast,
       PageIsCurrent, TakenForCurrent, PublicationIsCurrent, PublishedAsShown

\* The types of the server's steps,
LEMMA ServerKeepsReviewsState ==
    ASSUME ReviewsState,
           PollerAnswered \/ PollerEnds \/ RestartServer \/ OtherBrowser
    PROVE  ReviewsState'
<1> USE DEF pageVars, publicationVars
<1>1. CASE PollerAnswered
    <2>1. pollers' \subseteq pollers
        BY Zenon, <1>1 DEF PollerAnswered
    <2>2. \/ reviewSession' = reviewSession
          \/ reviewSession' = [reviewSession EXCEPT !.status = "ended"]
          \/ \E r \in Reviewer : \E name \in {r, NoReviewer} :
                reviewSession' = [reviewSession EXCEPT !.status = "authenticated",
                                      !.login = name, !.account = r]
        BY Zenon, <1>1 DEF PollerAnswered
    <2>3. ServerSession(reviewSession') /\ reviewSession'.flow = reviewSession.flow
        <3>1. CASE reviewSession' = [reviewSession EXCEPT !.status = "ended"]
            BY <3>1 DEF ReviewsState, ServerSession, Snapshot, SessionStatus
        <3>2. ASSUME NEW r \in Reviewer, NEW name \in {r, NoReviewer},
                     reviewSession' = [reviewSession EXCEPT !.status = "authenticated",
                                           !.login = name, !.account = r]
              PROVE  ServerSession(reviewSession') /\ reviewSession'.flow = reviewSession.flow
            <4>1. name = r \/ name = NoReviewer
                OBVIOUS
            <4>2. reviewSession' = [status |-> "authenticated", flow |-> reviewSession.flow,
                                    login |-> name, account |-> r]
                BY <3>2 DEF ReviewsState, ServerSession, Snapshot
            <4>3. reviewSession.flow \in 0..MaxFlows
                BY DEF ReviewsState, ServerSession, Snapshot
            <4>4. QED
                BY <4>1, <4>2, <4>3 DEF ServerSession, Snapshot, SessionStatus, Login
        <3>3. QED
            BY Zenon, <2>2, <3>1, <3>2 DEF ReviewsState
    <2>4. QED
        BY <1>1, <2>1, <2>3 DEF PollerAnswered, ReviewsState
<1>2. CASE PollerEnds
    <2>1. ServerSession(reviewSession') /\ reviewSession'.flow = reviewSession.flow
        BY <1>2 DEF PollerEnds, ReviewsState, ServerSession, Snapshot, SessionStatus
    <2>2. pollers' \subseteq pollers
        BY <1>2 DEF PollerEnds
    <2>3. QED
        BY <1>2, <2>1, <2>2 DEF PollerEnds, ReviewsState
<1>3. CASE RestartServer
    <2>1. upsets' \in 0..MaxUpsets
        BY <1>3, ReviewsAssumption DEF RestartServer, ReviewsState, ReviewsAssumption
    <2>2. QED
        BY <1>3, <2>1, CancelledIsASession DEF RestartServer, ReviewsState
<1>4. CASE OtherBrowser
    <2>1. upsets' \in 0..MaxUpsets
        BY <1>4, ReviewsAssumption DEF OtherBrowser, ReviewsState, ReviewsAssumption
    <2>2. CASE reviewSession' = CancelledSession /\ pollers' = pollers
        BY <1>4, <2>1, <2>2, CancelledIsASession DEF OtherBrowser, ReviewsState
    <2>3. CASE /\ reviewSession.flow < MaxFlows
               /\ reviewSession' = NewFlow /\ pollers' = pollers \union {NewFlow.flow}
        BY <1>4, <2>1, <2>3, NewFlowIsASession DEF OtherBrowser, ReviewsState
    <2>4. QED
        BY <1>4, <2>2, <2>3 DEF OtherBrowser
<1>5. QED
    BY <1>1, <1>2, <1>3, <1>4

\* ... of the form,
LEMMA FormKeepsReviewsState ==
    ASSUME ReviewsState,
           \/ ToggleForm \/ PollSession \/ SessionAnswered \/ SessionUnanswered
           \/ StartReviewLogin \/ SignOutReviewer \/ RemountReviews
    PROVE  ReviewsState'
<1> USE DEF pageVars, publicationVars
<1>1. CASE ToggleForm
    <2>1. form' \in Form
        BY <1>1 DEF ToggleForm, ReviewsState, Form
    <2>2. QED
        BY <1>1, <2>1 DEF ToggleForm, ReviewsState
<1>2. CASE PollSession
    <2>1. form' \in Form
        BY <1>2 DEF PollSession, ReviewsState, Form
    <2>2. QED
        BY <1>2, <2>1 DEF PollSession, ReviewsState
<1>3. CASE SessionAnswered
    <2>1. form' \in Form
        BY <1>3 DEF SessionAnswered, ReviewsState, ServerSession, Form
    <2>2. reviewSession.login \in Login
        BY DEF ReviewsState, ServerSession, Snapshot
    <2>3. connection' \in Login
        BY <1>3, <2>2 DEF SessionAnswered, ReviewsState
    <2>4. QED
        BY <1>3, <2>1, <2>3 DEF SessionAnswered, ReviewsState
<1>4. CASE SessionUnanswered
    <2>1. form' \in Form
        BY <1>4 DEF SessionUnanswered, ReviewsState, Form
    <2>2. upsets' \in 0..MaxUpsets
        BY <1>4, ReviewsAssumption DEF SessionUnanswered, ReviewsState, ReviewsAssumption
    <2>3. QED
        BY <1>4, <2>1, <2>2 DEF SessionUnanswered, ReviewsState
<1>5. CASE StartReviewLogin
    <2>1. form' \in Form
        BY <1>5 DEF StartReviewLogin, ReviewsState, Form
    <2>2. upsets' \in 0..MaxUpsets
        BY <1>5, ReviewsAssumption DEF StartReviewLogin, ReviewsState, ReviewsAssumption
    <2>3. CASE reviewSession' \in {reviewSession, CancelledSession} /\ pollers' = pollers
        BY <1>5, <2>1, <2>2, <2>3, CancelledIsASession DEF StartReviewLogin, ReviewsState
    <2>4. CASE /\ reviewSession.flow < MaxFlows
               /\ reviewSession' = NewFlow /\ pollers' = pollers \union {NewFlow.flow}
        BY <1>5, <2>1, <2>2, <2>4, NewFlowIsASession DEF StartReviewLogin, ReviewsState
    <2>5. QED
        BY <1>5, <2>3, <2>4 DEF StartReviewLogin
<1>6. CASE SignOutReviewer
    <2>1. form' \in Form
        BY <1>6 DEF SignOutReviewer, ReviewsState, Form
    <2>2. upsets' \in 0..MaxUpsets
        BY <1>6, ReviewsAssumption DEF SignOutReviewer, ReviewsState, ReviewsAssumption
    <2>3. NoReviewer \in Login
        BY DEF Login
    <2>4. QED
        BY <1>6, <2>1, <2>2, <2>3, CancelledIsASession DEF SignOutReviewer, ReviewsState
<1>7. CASE RemountReviews
    <2>1. PICK d \in {form.data, UnknownSession} :
             /\ form' = [MountedForm EXCEPT !.data = d, !.asking = form.asking /\ d = form.data,
                                            !.stale = form.stale /\ d = form.data]
             /\ connection' = IF d.status = "authenticated" /\ d.login # NoReviewer THEN d.login
                              ELSE connection
        BY <1>7 DEF RemountReviews
    <2>2. d \in Snapshot
        BY UnknownIsASnapshot DEF ReviewsState, Form
    <2>3. form' \in Form /\ connection' \in Login
        BY <2>1, <2>2 DEF MountedForm, Form, ReviewsState, Snapshot
    <2>4. linking' \in Linking
        BY <1>7, ReviewsAssumption DEF RemountReviews, NotLinking, Linking, ReviewsAssumption
    <2>5. publishing' \in Publishing
        BY <1>7 DEF RemountReviews, ReviewsState, Publishing
    <2>6. upsets' \in 0..MaxUpsets
        BY <1>7, ReviewsAssumption DEF RemountReviews, ReviewsState, ReviewsAssumption
    <2>7. QED
        BY <1>7, <2>3, <2>4, <2>5, <2>6 DEF RemountReviews, ReviewsState
<1>8. QED
    BY <1>1, <1>2, <1>3, <1>4, <1>5, <1>6, <1>7

\* ... of a publication,
LEMMA NotPublishingIsTyped == NotPublishing \in Publishing
    BY ReviewsAssumption DEF NotPublishing, Publishing, Login, ReviewsAssumption

LEMMA AuthorIsTyped == ReviewsState => Author \in Reviewer \union {LocalUser}
    BY DEF Author, postsItself, identityNamed, identified, ReviewsState, ServerSession, Snapshot,
       Login

LEMMA PublishingKeepsReviewsState ==
    ASSUME ReviewsState, SubmitReview \/ CreateReview \/ ReviewCreated
    PROVE  ReviewsState'
<1> USE DEF pageVars, publicationVars
<1>1. CASE SubmitReview
    <2>1. displayed \in Login
        BY DEF displayed, savedConnection, ReviewsState, Form, Snapshot, Login
    <2>2. form.data.flow \in 0..MaxFlows /\ 0 \in 0..MaxFlows
        BY ReviewsAssumption DEF ReviewsState, Form, Snapshot, ReviewsAssumption
    <2>3. publishing' \in Publishing
        BY <1>1, <2>1, <2>2 DEF SubmitReview, Publishing
    <2>4. QED
        BY <1>1, <2>3 DEF SubmitReview, ReviewsState
<1>2. CASE CreateReview
    <2>1. publishing' \in Publishing
        <3>1. PICK answer \in {"done", "refused"} :
                 publishing' = [NotPublishing EXCEPT !.state = answer, !.mine = publishing.mine]
            BY <1>2 DEF CreateReview
        <3>2. QED
            BY <3>1, NotPublishingIsTyped DEF ReviewsState, Publishing
    <2>2. \A p \in posts' : p.author \in Reviewer \union {LocalUser}
        <3> SUFFICES ASSUME NEW p \in posts', p \notin posts
                     PROVE  p.author \in Reviewer \union {LocalUser}
            BY DEF ReviewsState
        <3>1. p.author = Author
            BY <1>2 DEF CreateReview
        <3>2. QED
            BY <3>1, AuthorIsTyped
    <2>3. upsets' \in 0..MaxUpsets
        BY <1>2, ReviewsAssumption DEF CreateReview, ReviewsState, ReviewsAssumption
    <2>4. QED
        BY <1>2, <2>1, <2>2, <2>3 DEF CreateReview, ReviewsState
<1>3. CASE ReviewCreated
    <2>1. form' \in Form
        BY <1>3 DEF ReviewCreated, ReviewsState, Form
    <2>2. publishing' \in Publishing
        BY <1>3, NotPublishingIsTyped DEF ReviewCreated
    <2>3. QED
        BY <1>3, <2>1, <2>2 DEF ReviewCreated, ReviewsState
<1>4. QED
    BY <1>1, <1>2, <1>3

\* ... and of the settings.
LEMMA SettingsKeepReviewsState ==
    ASSUME ReviewsState,
           \/ OpenConnections \/ ConnectProvider \/ PollConnection \/ ConnectionPolled
           \/ CancelConnecting \/ DisconnectProvider
    PROVE  ReviewsState'
<1> USE DEF pageVars, publicationVars
<1>0. [NotLinking EXCEPT !.shown = TRUE] \in Linking
    <2>1. NotLinking \in Linking
        BY ReviewsAssumption DEF NotLinking, Linking, ReviewsAssumption
    <2>2. QED
        BY <2>1 DEF Linking
<1>1. CASE OpenConnections
    <2>1. form' \in Form
        BY <1>1 DEF OpenConnections, ReviewsState, Form
    <2>2. publishing' \in Publishing
        BY <1>1 DEF OpenConnections, ReviewsState, Publishing
    <2>3. upsets' \in 0..MaxUpsets
        BY <1>1, ReviewsAssumption DEF OpenConnections, ReviewsState, ReviewsAssumption
    <2>4. QED
        BY <1>0, <1>1, <2>1, <2>2, <2>3 DEF OpenConnections, ReviewsState
<1>2. CASE ConnectProvider
    <2>1. linking' \in Linking
        <3>1. reviewSession.flow < MaxFlows => NewFlow.flow \in 0..MaxFlows
            BY NewFlowIsASession DEF ServerSession, Snapshot
        <3>2. QED
            BY <1>2, <3>1 DEF ConnectProvider, ReviewsState, Linking
    <2>2. upsets' \in 0..MaxUpsets
        BY <1>2, ReviewsAssumption DEF ConnectProvider, ReviewsState, ReviewsAssumption
    <2>3. ServerSession(reviewSession') /\ pollers' \subseteq 1..reviewSession'.flow
        BY <1>2, NewFlowIsASession, CancelledIsASession DEF ConnectProvider, ReviewsState
    <2>4. QED
        BY <1>2, <2>1, <2>2, <2>3 DEF ConnectProvider, ReviewsState
<1>3. CASE PollConnection
    <2>1. linking' \in Linking
        BY <1>3 DEF PollConnection, ReviewsState, Linking
    <2>2. QED
        BY <1>3, <2>1 DEF PollConnection, ReviewsState
<1>4. CASE ConnectionPolled
    <2>1. [linking EXCEPT !.polling = "waits"] \in Linking
          /\ [linking EXCEPT !.polling = "stopped"] \in Linking
        BY DEF ReviewsState, Linking
    <2>2. linking' \in Linking
        BY <1>0, <1>4, <2>1 DEF ConnectionPolled
    <2>3. reviewSession.login \in Login
        BY DEF ReviewsState, ServerSession, Snapshot
    <2>4. connection' \in Login
        BY <1>4, <2>3 DEF ConnectionPolled, ReviewsState
    <2>5. form' \in Form
        <3>1. [form EXCEPT !.stale = TRUE] \in Form
            BY DEF ReviewsState, Form
        <3>2. form' = form \/ form' = [form EXCEPT !.stale = TRUE]
            BY <1>4 DEF ConnectionPolled
        <3>3. QED
            BY <3>1, <3>2 DEF ReviewsState
    <2>6. upsets' \in 0..MaxUpsets
        BY <1>4, ReviewsAssumption DEF ConnectionPolled, ReviewsState, ReviewsAssumption
    <2>7. QED
        BY <1>4, <2>2, <2>4, <2>5, <2>6 DEF ConnectionPolled, ReviewsState
<1>5. CASE CancelConnecting
    BY <1>0, <1>5 DEF CancelConnecting, ReviewsState
<1>6. CASE DisconnectProvider
    <2>1. form' \in Form
        BY <1>6 DEF DisconnectProvider, ReviewsState, Form
    <2>2. NoReviewer \in Login
        BY DEF Login
    <2>3. QED
        BY <1>6, <2>1, <2>2, CancelledIsASession DEF DisconnectProvider, ReviewsState
<1>7. QED
    BY <1>1, <1>2, <1>3, <1>4, <1>5, <1>6

LEMMA ReviewsKeepState ==
    ASSUME ReviewsState, [ReviewsNext]_reviewsVars
    PROVE  ReviewsState'
<1>1. CASE UNCHANGED reviewsVars
    BY <1>1 DEF reviewsVars, pageVars, publicationVars, ReviewsState
<1>2. QED
    BY <1>1, ServerKeepsReviewsState, FormKeepsReviewsState, PublishingKeepsReviewsState,
       SettingsKeepReviewsState DEF ReviewsNext

\* What most steps do: the session stays, or is given up where none is taken
\* for current, no poller comes, and nothing begins to be shown, taken for
\* current or published.
Quiet ==
    /\ reviewSession' = reviewSession \/ reviewSession'.status = "idle"
    /\ undisturbed' /\ reviewSession' # reviewSession =>
          ~TakenForCurrent' /\ publishing'.state # "asked"
    /\ pollers' \subseteq pollers
    /\ TakenForCurrent' => form'.data = form.data /\ TakenForCurrent
    /\ publishing'.state = "asked" =>
          /\ publishing.state = "asked" /\ publishing'.flow = publishing.flow
          /\ publishing'.shown = publishing.shown
    /\ posts' = posts
    /\ undisturbed' => undisturbed

LEMMA QuietKeepsPagesCurrent ==
    ASSUME PagesAreCurrent, Quiet
    PROVE  PagesAreCurrent'
<1>1. AnswerIsLast'
    BY DEF PagesAreCurrent, AnswerIsLast, Quiet
<1>2. PageIsCurrent'
    BY Zenon DEF PagesAreCurrent, PageIsCurrent, Quiet
<1>3. PublicationIsCurrent'
    BY Zenon DEF PagesAreCurrent, PublicationIsCurrent, Quiet
<1>4. PublishedAsShown'
    BY Zenon DEF PagesAreCurrent, PublishedAsShown, Quiet
<1>5. QED
    BY <1>1, <1>2, <1>3, <1>4 DEF PagesAreCurrent

\* After a restart or another browser the session is nobody's in particular.
LEMMA OthersKeepPagesCurrent ==
    ASSUME ReviewsState, PagesAreCurrent, RestartServer \/ OtherBrowser
    PROVE  PagesAreCurrent'
<1>1. undisturbed' = FALSE
    BY DEF RestartServer, OtherBrowser
<1>2. AnswerIsLast'
    BY CancelledIsASession, NewFlowIsASession DEF RestartServer, OtherBrowser, AnswerIsLast
<1>3. QED
    BY <1>1, <1>2 DEF PagesAreCurrent, PageIsCurrent, PublicationIsCurrent, PublishedAsShown

\* A finding is heard only of the flow that waits for it, and by then neither
\* a page nor a publication takes a session for current.
LEMMA PollersKeepPagesCurrent ==
    ASSUME ReviewsState, PagesAreCurrent, PollerAnswered \/ PollerEnds
    PROVE  PagesAreCurrent'
<1>0. reviewSession \in Snapshot
    BY DEF ReviewsState, ServerSession
<1>1. /\ UNCHANGED <<form, publishing, posts, undisturbed>>
      /\ \E f \in pollers :
            /\ pollers' = pollers \ {f}
            /\ \/ reviewSession' = reviewSession
               \/ /\ reviewSession.flow = f /\ reviewSession.status # "idle"
                  /\ reviewSession'.flow = reviewSession.flow
    <2>1. /\ [reviewSession EXCEPT !.status = "ended"].flow = reviewSession.flow
          /\ \A r, name : [reviewSession EXCEPT !.status = "authenticated", !.login = name,
                                                !.account = r].flow = reviewSession.flow
        BY <1>0 DEF Snapshot
    <2>2. CASE PollerAnswered
        BY Zenon, <2>1, <2>2 DEF PollerAnswered, CurrentFlow, pageVars, publicationVars
    <2>3. CASE PollerEnds
        BY Zenon, <2>1, <2>3 DEF PollerEnds, CurrentFlow, pageVars, publicationVars
    <2>4. QED
        BY <2>2, <2>3
<1>2. PICK f \in pollers :
            /\ pollers' = pollers \ {f}
            /\ \/ reviewSession' = reviewSession
               \/ /\ reviewSession.flow = f /\ reviewSession.status # "idle"
                  /\ reviewSession'.flow = reviewSession.flow
    BY <1>1
<1>3. CASE reviewSession' = reviewSession
    <2>1. Quiet
        BY Zenon, <1>1, <1>2, <1>3 DEF Quiet, TakenForCurrent
    <2>2. QED
        BY <2>1, QuietKeepsPagesCurrent
<1>4. CASE /\ reviewSession.flow = f /\ reviewSession.status # "idle"
           /\ reviewSession'.flow = reviewSession.flow
    <2>1. reviewSession.status # "authenticated"
        BY <1>2, <1>4 DEF PagesAreCurrent, AnswerIsLast
    <2>2. AnswerIsLast'
        BY <1>2, <1>4 DEF AnswerIsLast
    <2>3. ~(undisturbed /\ TakenForCurrent)
        BY <1>4, <2>1 DEF PagesAreCurrent, PageIsCurrent, TakenForCurrent
    <2>4. ~(undisturbed /\ publishing.state = "asked" /\ publishing.flow # 0)
        BY <1>4, <2>1 DEF PagesAreCurrent, PublicationIsCurrent
    <2>5. PageIsCurrent' /\ PublicationIsCurrent'
        BY Zenon, <1>1, <2>3, <2>4 DEF PageIsCurrent, TakenForCurrent, PublicationIsCurrent
    <2>6. PublishedAsShown'
        BY Zenon, <1>1 DEF PagesAreCurrent, PublishedAsShown
    <2>7. QED
        BY <2>2, <2>5, <2>6 DEF PagesAreCurrent
<1>5. QED
    BY <1>2, <1>3, <1>4

\* The steps of the page that publish nothing.
LEMMA FormKeepsPagesCurrent ==
    ASSUME ReviewsState, PagesAreCurrent,
           \/ ToggleForm \/ PollSession \/ SessionUnanswered \/ SignOutReviewer
           \/ RemountReviews
    PROVE  PagesAreCurrent'
<1> USE DEF pageVars, publicationVars
<1>1. CASE ToggleForm \/ PollSession \/ SessionUnanswered
    <2>1. /\ form'.data = form.data /\ form'.stale = form.stale
          /\ UNCHANGED <<reviewSession, pollers, publishing, posts, undisturbed>>
        BY <1>1 DEF ToggleForm, PollSession, SessionUnanswered, ReviewsState, Form
    <2>2. Quiet
        BY Zenon, <2>1 DEF Quiet, TakenForCurrent
    <2>3. QED
        BY <2>2, QuietKeepsPagesCurrent
<1>2. CASE SignOutReviewer
    <2>1. /\ form'.data = form.data /\ form'.stale \in {TRUE, form.stale}
          /\ UNCHANGED <<pollers, publishing, posts>>
          /\ reviewSession' = reviewSession \/ reviewSession'.status = "idle"
        BY <1>2, CancelledIsASession DEF SignOutReviewer, ReviewsState, Form
    <2>2. \/ form'.stale = TRUE /\ undisturbed' = (undisturbed /\ publishing.state = "no")
          \/ undisturbed' = (undisturbed /\ reviewSession' = reviewSession)
        BY <1>2 DEF SignOutReviewer, ReviewsState, Form
    <2>3. undisturbed' => undisturbed
        BY Zenon, <2>2
    <2>4. undisturbed' /\ reviewSession' # reviewSession =>
             form'.stale = TRUE /\ publishing.state = "no"
        BY Zenon, <2>2
    <2>5. Quiet
        BY <2>1, <2>3, <2>4 DEF Quiet, TakenForCurrent
    <2>6. QED
        BY <2>5, QuietKeepsPagesCurrent
<1>3. CASE RemountReviews
    <2>1. PICK d \in {form.data, UnknownSession} :
             form' = [MountedForm EXCEPT !.data = d, !.asking = form.asking /\ d = form.data,
                                         !.stale = form.stale /\ d = form.data]
        BY <1>3 DEF RemountReviews
    <2>2. form'.data = d /\ form'.stale = (form.stale /\ d = form.data)
        BY <2>1 DEF MountedForm
    <2>3. TakenForCurrent' => form'.data = form.data /\ TakenForCurrent
        <3>1. CASE d = form.data
            <4>1. form.stale \in BOOLEAN
                BY DEF ReviewsState, Form
            <4>2. QED
                BY Zenon, <2>2, <3>1, <4>1 DEF TakenForCurrent
        <3>2. CASE d = UnknownSession
            BY <2>2, <3>2, UnknownIsASnapshot DEF TakenForCurrent
        <3>3. QED
            BY <3>1, <3>2
    <2>4. /\ UNCHANGED <<reviewSession, pollers, posts, undisturbed>>
          /\ publishing'.state = publishing.state /\ publishing'.flow = publishing.flow
          /\ publishing'.shown = publishing.shown
        BY <1>3 DEF RemountReviews, ReviewsState, Publishing
    <2>5. Quiet
        BY Zenon, <2>3, <2>4 DEF Quiet
    <2>6. QED
        BY <2>5, QuietKeepsPagesCurrent
<1>4. QED
    BY <1>1, <1>2, <1>3

\* An answer makes the page's session the server's.
LEMMA AnswerKeepsPagesCurrent ==
    ASSUME ReviewsState, PagesAreCurrent, SessionAnswered
    PROVE  PagesAreCurrent'
<1>1. /\ form'.data = reviewSession
      /\ UNCHANGED <<reviewSession, pollers, publishing, posts, undisturbed>>
    BY DEF SessionAnswered, ReviewsState, Form, publicationVars
<1>2. PageIsCurrent'
    BY <1>1 DEF PageIsCurrent
<1>3. AnswerIsLast' /\ PublicationIsCurrent' /\ PublishedAsShown'
    BY Zenon, <1>1 DEF PagesAreCurrent, AnswerIsLast, PublicationIsCurrent, PublishedAsShown
<1>4. QED
    BY <1>2, <1>3 DEF PagesAreCurrent

\* A sign-in begins where the page takes none for current; the steps that end
\* here with undisturbed have no publication under way.
LEMMA SignInKeepsPagesCurrent ==
    ASSUME ReviewsState, PagesAreCurrent, StartReviewLogin \/ ConnectProvider
    PROVE  PagesAreCurrent'
<1> USE DEF pageVars, publicationVars
<1>1. /\ form'.data = form.data /\ form'.stale = form.stale
      /\ UNCHANGED <<publishing, posts>>
    BY DEF StartReviewLogin, ConnectProvider, ReviewsState, Form
<1>2. undisturbed' => undisturbed /\ publishing.state = "no"
    BY Zenon DEF StartReviewLogin, ConnectProvider
<1>3. undisturbed' => ~TakenForCurrent
    BY Zenon DEF StartReviewLogin, ConnectProvider, isAuthenticated, backendAuthenticated,
       TakenForCurrent
<1>4. AnswerIsLast'
    BY CancelledIsASession, NewFlowIsASession
       DEF StartReviewLogin, ConnectProvider, PagesAreCurrent, AnswerIsLast
<1>5. PageIsCurrent' /\ PublicationIsCurrent'
    BY Zenon, <1>1, <1>2, <1>3 DEF PageIsCurrent, TakenForCurrent, PublicationIsCurrent
<1>6. PublishedAsShown'
    BY Zenon, <1>1, <1>2 DEF PagesAreCurrent, PublishedAsShown
<1>7. QED
    BY <1>4, <1>5, <1>6 DEF PagesAreCurrent

\* A publication begins with the session of the page.
LEMMA SubmitKeepsPagesCurrent ==
    ASSUME ReviewsState, PagesAreCurrent, SubmitReview
    PROVE  PagesAreCurrent'
<1>1. /\ UNCHANGED <<reviewSession, pollers, form, posts, undisturbed>>
      /\ publishing' = [shown |-> displayed,
                        flow |-> IF backendAuthenticated /\ ~form.stale THEN form.data.flow ELSE 0,
                        state |-> "asked", mine |-> TRUE]
    BY DEF SubmitReview, pageVars
<1>2. AnswerIsLast' /\ PageIsCurrent' /\ PublishedAsShown'
    BY Zenon, <1>1 DEF PagesAreCurrent, AnswerIsLast, PageIsCurrent, TakenForCurrent,
       PublishedAsShown
<1>3. PublicationIsCurrent'
    <2> SUFFICES ASSUME undisturbed, publishing'.flow # 0
                 PROVE  /\ reviewSession.status = "authenticated"
                        /\ reviewSession.flow = publishing'.flow
                        /\ reviewSession.login = publishing'.shown
        BY Zenon, <1>1 DEF PublicationIsCurrent
    <2>1. form.stale \in BOOLEAN
        BY DEF ReviewsState, Form
    <2>2. backendAuthenticated /\ form.stale = FALSE
        BY <1>1, <2>1
    <2>3. /\ form.data.status = "authenticated"
          /\ publishing'.shown = form.data.login /\ publishing'.flow = form.data.flow
        BY <1>1, <2>2 DEF backendAuthenticated, displayed
    <2>4. reviewSession = form.data
        BY Zenon, <2>2, <2>3 DEF PagesAreCurrent, PageIsCurrent, TakenForCurrent
    <2>5. QED
        BY <2>3, <2>4
<1>4. QED
    BY <1>2, <1>3 DEF PagesAreCurrent

\* The server publishes by the session it has, which is the one shown; with
\* whichever token it posts, the author is the name of that one, if it has one.
LEMMA CreateKeepsPagesCurrent ==
    ASSUME ReviewsState, PagesAreCurrent, CreateReview
    PROVE  PagesAreCurrent'
<1>1. /\ UNCHANGED <<reviewSession, pollers, form, undisturbed>>
      /\ publishing.state = "asked" /\ publishing'.state # "asked"
    BY DEF CreateReview, pageVars, NotPublishing
<1>2. AnswerIsLast' /\ PageIsCurrent' /\ PublicationIsCurrent'
    BY Zenon, <1>1 DEF PagesAreCurrent, AnswerIsLast, PageIsCurrent, TakenForCurrent,
       PublicationIsCurrent
<1>3. PublishedAsShown'
    <2> SUFFICES ASSUME undisturbed, NEW p \in posts'
                 PROVE  p.asShown
        BY Zenon, <1>1 DEF PublishedAsShown
    <2>1. CASE p \in posts
        BY Zenon, <2>1 DEF PagesAreCurrent, PublishedAsShown
    <2>2. CASE p \notin posts
        <3>1. p = [author |-> Author, asShown |-> AsShown]
            BY Zenon, <2>2 DEF CreateReview
        <3>2. ASSUME publishing.flow # 0
              PROVE  /\ identified /\ reviewSession.flow = publishing.flow
                     /\ publishing.shown \in {Author, NoReviewer}
            <4>1. /\ reviewSession.status = "authenticated"
                  /\ reviewSession.flow = publishing.flow
                  /\ reviewSession.login = publishing.shown
                BY Zenon, <1>1, <3>2 DEF PagesAreCurrent, PublicationIsCurrent
            <4>2. reviewSession.login \in {reviewSession.account, NoReviewer}
                BY DEF ReviewsState, ServerSession
            <4>3. QED
                BY <4>1, <4>2 DEF identified, identityNamed, Author
        <3>3. AsShown
            BY Zenon, <3>2 DEF AsShown
        <3>4. p.asShown = AsShown
            BY <3>1
        <3>5. QED
            BY Zenon, <3>3, <3>4
    <2>3. QED
        BY <2>1, <2>2
<1>4. QED
    BY <1>2, <1>3 DEF PagesAreCurrent

\* The answer to a publication ends it.
LEMMA CreatedKeepsPagesCurrent ==
    ASSUME ReviewsState, PagesAreCurrent, ReviewCreated
    PROVE  PagesAreCurrent'
<1>1. /\ form'.data = form.data /\ form'.stale = form.stale
      /\ UNCHANGED <<reviewSession, pollers, posts, undisturbed>>
      /\ publishing'.state # "asked"
    BY DEF ReviewCreated, ReviewsState, Form, NotPublishing
<1>2. Quiet
    BY Zenon, <1>1 DEF Quiet, TakenForCurrent
<1>3. QED
    BY <1>2, QuietKeepsPagesCurrent

\* The settings change what is kept, and leave the page to ask again.
LEMMA SettingsKeepPagesCurrent ==
    ASSUME ReviewsState, PagesAreCurrent,
           \/ OpenConnections \/ PollConnection \/ ConnectionPolled \/ CancelConnecting
           \/ DisconnectProvider
    PROVE  PagesAreCurrent'
<1> USE DEF pageVars, publicationVars
<1>1. /\ form'.data = form.data /\ form'.stale \in {TRUE, form.stale}
      /\ UNCHANGED <<pollers, posts>>
      /\ reviewSession' = reviewSession \/ reviewSession'.status = "idle"
    BY CancelledIsASession DEF OpenConnections, PollConnection, ConnectionPolled,
       CancelConnecting, DisconnectProvider, ReviewsState, Form
<1>2. /\ publishing'.state = publishing.state /\ publishing'.flow = publishing.flow
      /\ publishing'.shown = publishing.shown
    BY DEF OpenConnections, PollConnection, ConnectionPolled, CancelConnecting,
       DisconnectProvider, ReviewsState, Publishing
<1>3. undisturbed' => undisturbed
    BY Zenon DEF OpenConnections, PollConnection, ConnectionPolled, CancelConnecting,
       DisconnectProvider
<1>4. undisturbed' /\ reviewSession' # reviewSession =>
         form'.stale = TRUE /\ publishing.state = "no"
    <2>1. CASE DisconnectProvider
        <3>1. form'.stale = TRUE
            BY <2>1 DEF DisconnectProvider, ReviewsState, Form
        <3>2. undisturbed' => publishing.state = "no"
            BY Zenon, <2>1 DEF DisconnectProvider
        <3>3. QED
            BY Zenon, <3>1, <3>2
    <2>2. CASE ~DisconnectProvider
        BY Zenon, <2>2 DEF OpenConnections, PollConnection, ConnectionPolled, CancelConnecting
    <2>3. QED
        BY Zenon, <2>1, <2>2
<1>5. Quiet
    BY <1>1, <1>2, <1>3, <1>4 DEF Quiet, TakenForCurrent
<1>6. QED
    BY <1>5, QuietKeepsPagesCurrent

LEMMA PagesStayCurrent ==
    ASSUME ReviewsState, PagesAreCurrent, [ReviewsNext]_reviewsVars
    PROVE  PagesAreCurrent'
<1>1. CASE UNCHANGED reviewsVars
    <2>1. Quiet
        BY Zenon, <1>1 DEF Quiet, TakenForCurrent, reviewsVars, pageVars, publicationVars
    <2>2. QED
        BY <2>1, QuietKeepsPagesCurrent
<1>2. QED
    BY <1>1, OthersKeepPagesCurrent, PollersKeepPagesCurrent,
       FormKeepsPagesCurrent, AnswerKeepsPagesCurrent, SignInKeepsPagesCurrent,
       SubmitKeepsPagesCurrent, CreateKeepsPagesCurrent, CreatedKeepsPagesCurrent,
       SettingsKeepPagesCurrent DEF ReviewsNext

LEMMA ReviewsStep == ReviewsInv /\ [ReviewsNext]_reviewsVars => ReviewsInv'
    BY ReviewsKeepState, PagesStayCurrent DEF ReviewsInv

\* The inductive invariant holds, whatever the server, other browsers, the
\* page and the settings do.
THEOREM ReviewsInvariance == ReviewsSpec => []ReviewsInv
    BY ReviewsInitially, ReviewsStep, PTL DEF ReviewsSpec

\* A review is published by the session the page showed and under its name, if
\* it has one, for any number of reviewers, device flows and upsets, with either
\* provider, with and without a token of the server, as long as nothing else has
\* used the server's one session (PublishedAsShown says when).
THEOREM ReviewsAreTheirAuthors == ReviewsSpec => []PublishedAsShown
<1>1. ReviewsInv => PublishedAsShown
    BY DEF ReviewsInv, PagesAreCurrent
<1>2. QED
    BY ReviewsInvariance, <1>1, PTL

-----------------------------------------------------------------------------
(* MetricsStream: the broker, and the samples of events. *)

\* The theorems about the broker, for the one of the sampler.
Proved == INSTANCE EventBrokerProofs WITH
    Client <- {Dashboard}, Closed <- NoQueue, Buffer <- QueueSize, HistorySize <- Remembered,
    MaxEvents <- MaxSamples * Families, MaxRestarts <- 0,
    nextEventID <- published, history <- recent, channel <- queue, lastEventID <- cursor,
    received <- [c \in {Dashboard} |-> {}], restarts <- 0

\* An id is in the range of ids of its sample.
LEMMA SampleOfIds ==
    ASSUME NEW id \in Nat \ {0}
    PROVE  /\ SampleOf(id) \in Nat \ {0}
           /\ (SampleOf(id) - 1) * Families < id
           /\ id <= (SampleOf(id) - 1) * Families + Families
<1>0. Families \in Nat \ {0}
    BY MetricsAssumption DEF MetricsAssumption
<1> DEFINE s == (id - 1) \div Families
<1>1. s \in Nat /\ Families * s <= id - 1 /\ id - 1 < Families * s + Families
    BY <1>0
<1>2. SampleOf(id) = s + 1
    BY DEF SampleOf
<1> HIDE DEF s
<1>3. (SampleOf(id) - 1) * Families = Families * s
    BY <1>0, <1>1, <1>2
<1>4. Families * s \in Nat
    BY <1>0, <1>1
<1>5. QED
    BY <1>0, <1>1, <1>2, <1>3, <1>4

LEMMA ProductsGrow == \A s, t, f \in Nat : s < t => s * f + f <= t * f
<1> SUFFICES ASSUME NEW s \in Nat, NEW t \in Nat, NEW f \in Nat, s < t
             PROVE  s * f + f <= t * f
    OBVIOUS
<1>1. t = s + 1 + (t - s - 1) /\ t - s - 1 \in Nat
    OBVIOUS
<1>2. t * f = s * f + f + (t - s - 1) * f
    BY <1>1
<1>3. (t - s - 1) * f \in Nat /\ s * f \in Nat
    BY <1>1
<1>4. QED
    BY <1>2, <1>3

\* ... and in no other.
LEMMA SampleIsUnique ==
    ASSUME NEW id \in Nat \ {0}, NEW s \in Nat \ {0},
           (s - 1) * Families < id, id <= (s - 1) * Families + Families
    PROVE  SampleOf(id) = s
<1>0. Families \in Nat
    BY MetricsAssumption DEF MetricsAssumption
<1> DEFINE t == SampleOf(id)
<1>1. t \in Nat \ {0} /\ (t - 1) * Families < id /\ id <= (t - 1) * Families + Families
    BY SampleOfIds
<1> HIDE DEF t
<1>2. s - 1 \in Nat /\ t - 1 \in Nat /\ (s - 1) * Families \in Nat /\ (t - 1) * Families \in Nat
    BY <1>0, <1>1
<1>3. ~(s - 1 < t - 1)
    BY <1>0, <1>1, <1>2, ProductsGrow
<1>4. ~(t - 1 < s - 1)
    BY <1>0, <1>1, <1>2, ProductsGrow
<1>5. QED
    BY <1>1, <1>3, <1>4 DEF t

\* Ids grow with their samples.
LEMMA SamplesGrow ==
    ASSUME NEW a \in Nat \ {0}, NEW b \in Nat \ {0}, a <= b
    PROVE  SampleOf(a) <= SampleOf(b)
<1>0. Families \in Nat
    BY MetricsAssumption DEF MetricsAssumption
<1> DEFINE s == SampleOf(a)
           t == SampleOf(b)
<1>1. /\ s \in Nat \ {0} /\ (s - 1) * Families < a
      /\ t \in Nat \ {0} /\ b <= (t - 1) * Families + Families
    BY SampleOfIds
<1> HIDE DEF s, t
<1>2. s - 1 \in Nat /\ t - 1 \in Nat /\ (s - 1) * Families \in Nat /\ (t - 1) * Families \in Nat
    BY <1>0, <1>1
<1>3. ~(t - 1 < s - 1)
    BY <1>0, <1>1, <1>2, ProductsGrow
<1>4. QED
    BY <1>1, <1>3 DEF s, t

\* The ids of the first n samples are of one of them.
LEMMA SamplesAreTaken ==
    ASSUME NEW n \in Nat, NEW id \in 1..(n * Families)
    PROVE  SampleOf(id) \in 1..n
<1>0. Families \in Nat /\ n * Families \in Nat
    BY MetricsAssumption DEF MetricsAssumption
<1> DEFINE s == SampleOf(id)
<1>1. s \in Nat \ {0} /\ (s - 1) * Families < id
    BY <1>0, SampleOfIds
<1> HIDE DEF s
<1>2. s - 1 \in Nat /\ (s - 1) * Families \in Nat
    BY <1>0, <1>1
<1>3. ~(n < s - 1) /\ n # s - 1
    BY <1>0, <1>1, <1>2, ProductsGrow
<1>4. QED
    BY <1>1, <1>3 DEF s

\* The broker of MetricsStream and the one the theorems are about are one.
LEMMA BrokerIsProved ==
    /\ Proved!BufferIsPositive /\ Proved!HistoryIsNatural /\ Proved!BoundsAreNatural
    /\ Proved!ClosedIsNoChannel
    /\ Broker!Event = Proved!Event
    /\ \A s, n : Broker!Trim(s, n) = Proved!Trim(s, n)
    /\ \A after : Broker!Replay(after) = Proved!Replay(after)
    /\ \A q, event : Broker!Offer(q, event) = Proved!Offer(q, event)
    /\ \A event : Broker!Remember(event) = Proved!Remember(event)
<1>1. Broker!Event = Proved!Event
    BY DEF Broker!Event, Proved!Event
<1>2. \A s, n : Broker!Trim(s, n) = Proved!Trim(s, n)
    BY DEF Broker!Trim, Proved!Trim, Broker!Newest, Proved!Newest
<1>3. \A after : Broker!Replay(after) = Proved!Replay(after)
    BY <1>2 DEF Broker!Replay, Proved!Replay
<1>4. \A q, event : Broker!Offer(q, event) = Proved!Offer(q, event)
    BY DEF Broker!Offer, Proved!Offer
<1>5. \A event : Broker!Remember(event) = Proved!Remember(event)
    BY <1>2 DEF Broker!Remember, Proved!Remember
<1>6. /\ Proved!BufferIsPositive /\ Proved!HistoryIsNatural /\ Proved!BoundsAreNatural
      /\ Proved!ClosedIsNoChannel
    BY <1>1, BrokerAssumption, MetricsAssumption
       DEF BrokerAssumption, MetricsAssumption, Proved!BufferIsPositive,
           Proved!HistoryIsNatural, Proved!BoundsAreNatural, Proved!ClosedIsNoChannel
<1>7. QED
    BY <1>1, <1>2, <1>3, <1>4, <1>5, <1>6

-----------------------------------------------------------------------------
(* MetricsStream: lists of events. *)

\* The ids of a list grow and are among those published.
InOrder(list, last) ==
    /\ \A j \in 1..Len(list) : list[j].id <= last
    /\ \A j, k \in 1..Len(list) : j < k => list[j].id < list[k].id

\* Of a sample in the list nothing is missing between its first and its last
\* event.
Whole(list) ==
    \A j \in 1..Len(list) : \A id \in list[1].id..list[Len(list)].id :
        SampleOf(id) = SampleOf(list[j].id) => \E k \in 1..Len(list) : list[k].id = id

\* What may come after the event a without breaking a sample.
MayFollow(a, b) ==
    \/ b = a + 1
    \/ a < b /\ SampleOf(a + 1) # SampleOf(a) /\ SampleOf(b - 1) # SampleOf(b)

\* A reduced list is an end of the list and the new event.
LEMMA ReducedList ==
    ASSUME NEW list \in Seq(Proved!Event), NEW event \in Proved!Event
    PROVE  /\ Reduced(list, event) \in Seq(Proved!Event)
           /\ \E n \in 0..Len(list) :
                 /\ Len(Reduced(list, event)) = n + 1
                 /\ \A k \in 1..n : Reduced(list, event)[k] = list[Len(list) - n + k]
                 /\ Reduced(list, event)[n + 1] = event
<1> DEFINE kept == Broker!Trim(list, Limit - 1)
           n == Len(kept)
<1>0. Limit - 1 \in Nat
    BY MetricsAssumption DEF MetricsAssumption
<1>1. /\ kept \in Seq(Proved!Event)
      /\ Len(kept) = IF Len(list) > Limit - 1 THEN Limit - 1 ELSE Len(list)
      /\ \A i \in 1..Len(kept) : kept[i] = list[Len(list) - Len(kept) + i]
    BY <1>0, BrokerIsProved, Proved!TrimProperties
<1>2. Reduced(list, event) = Append(kept, event)
    BY DEF Reduced
<1>3. n \in 0..Len(list)
    BY <1>0, <1>1
<1> HIDE DEF kept
<1>4. /\ Append(kept, event) \in Seq(Proved!Event) /\ Len(Append(kept, event)) = n + 1
      /\ \A k \in 1..n : Append(kept, event)[k] = kept[k]
      /\ Append(kept, event)[n + 1] = event
    BY <1>1
<1> HIDE DEF n
<1>5. QED
    BY <1>1, <1>2, <1>3, <1>4 DEF n

LEMMA EventsHaveIds ==
    ASSUME NEW list \in Seq(Proved!Event), NEW j \in 1..Len(list)
    PROVE  list[j].id \in Nat \ {0}
<1>1. list[j] \in Proved!Event
    OBVIOUS
<1>2. QED
    BY <1>1 DEF Proved!Event

\* A newer event keeps a list in order.
LEMMA ReducedInOrder ==
    ASSUME NEW list \in Seq(Proved!Event), NEW event \in Proved!Event, NEW last \in Nat,
           InOrder(list, last), event.id <= last,
           list # << >> => list[Len(list)].id < event.id
    PROVE  /\ InOrder(Reduced(list, event), last)
           /\ Reduced(list, event) # << >>
           /\ Reduced(list, event)[Len(Reduced(list, event))].id = event.id
<1> DEFINE r == Reduced(list, event)
           len == Len(list)
<1>1. r \in Seq(Proved!Event)
    BY ReducedList
<1>2. PICK n \in 0..len : /\ Len(r) = n + 1
                          /\ \A k \in 1..n : r[k] = list[len - n + k]
                          /\ r[n + 1] = event
    BY ReducedList
<1> HIDE DEF r
<1>3. len \in Nat
    OBVIOUS
<1>4. ASSUME NEW k \in 1..n PROVE len - n + k \in 1..len /\ r[k] = list[len - n + k]
    BY <1>2, <1>3
<1>5. ASSUME NEW j \in 1..len PROVE list[j].id < event.id /\ list[j].id <= last
    <2>1. len \in 1..len /\ list # << >>
        BY <1>3
    <2>2. j = len \/ list[j].id < list[len].id
        BY <2>1 DEF InOrder
    <2>3. list[j].id \in Nat /\ list[len].id \in Nat /\ event.id \in Nat
        BY <2>1, EventsHaveIds DEF Proved!Event
    <2>4. list[len].id < event.id
        BY <2>1
    <2>5. list[j].id <= last
        BY DEF InOrder
    <2>6. QED
        BY <2>2, <2>3, <2>4, <2>5
<1> HIDE DEF len
<1>6. \A k \in 1..Len(r) : r[k].id <= last
    BY <1>2, <1>4, <1>5
<1>7. ASSUME NEW j \in 1..Len(r), NEW k \in 1..Len(r), j < k
      PROVE  r[j].id < r[k].id
    <2>1. j \in 1..n
        BY <1>2, <1>7
    <2>2. CASE k = n + 1
        BY <1>2, <1>4, <1>5, <2>1, <2>2
    <2>3. CASE k # n + 1
        <3>1. k \in 1..n
            BY <1>2, <2>3
        <3>2. len - n + j < len - n + k
            BY <1>3, <1>7, <2>1, <3>1
        <3>3. QED
            BY <1>4, <2>1, <3>1, <3>2 DEF InOrder, len
    <2>4. QED
        BY <2>2, <2>3
<1>8. QED
    BY <1>1, <1>2, <1>6, <1>7 DEF InOrder, r

\* An event that breaks no sample keeps the samples of a list whole.
LEMMA ReducedWhole ==
    ASSUME NEW list \in Seq(Proved!Event), NEW event \in Proved!Event, NEW last \in Nat,
           InOrder(list, last), Whole(list),
           list # << >> => MayFollow(list[Len(list)].id, event.id)
    PROVE  Whole(Reduced(list, event))
<1> DEFINE r == Reduced(list, event)
           len == Len(list)
           b == event.id
<1>1. PICK n \in 0..len : /\ Len(r) = n + 1
                          /\ \A k \in 1..n : r[k] = list[len - n + k]
                          /\ r[n + 1] = event
    BY ReducedList
<1> HIDE DEF r
<1>2. len \in Nat /\ b \in Nat \ {0} /\ n + 1 \in 1..Len(r)
    BY <1>1 DEF Proved!Event
<1> SUFFICES ASSUME NEW j \in 1..Len(r), NEW id \in r[1].id..r[Len(r)].id,
                    SampleOf(id) = SampleOf(r[j].id), id # b
             PROVE  \E k \in 1..Len(r) : r[k].id = id
    <2>1. r[n + 1].id = b
        BY <1>1
    <2>2. \A id : id = b => \E k \in 1..Len(r) : r[k].id = id
        BY <1>2, <2>1
    <2>3. QED
        BY Zenon, <2>2 DEF Whole, r
<1>3. n # 0
    BY <1>1, <1>2
<1> DEFINE a == list[len].id
           first == list[len - n + 1].id
<1>4. /\ len \in 1..len /\ list # << >> /\ len - n + 1 \in 1..len /\ 1 \in 1..len
      /\ 1 \in 1..n
    BY <1>2, <1>3
<1>5. a \in Nat \ {0} /\ first \in Nat \ {0} /\ list[1].id \in Nat \ {0}
    BY <1>4, EventsHaveIds
<1>6. r[1].id = first /\ r[Len(r)].id = b
    BY <1>1, <1>4
<1>7. id \in Nat \ {0} /\ first <= id /\ id < b
    <2>1. id \in first..b
        BY <1>6
    <2> HIDE DEF first, b
    <2>2. id # b
        BY DEF b
    <2>3. QED
        BY <1>2, <1>5, <2>1, <2>2
<1>8. MayFollow(a, b)
    BY <1>4
<1>9. \A k \in 1..len : list[k].id \in Nat \ {0} /\ list[k].id <= a
    <2> SUFFICES ASSUME NEW k \in 1..len PROVE list[k].id \in Nat \ {0} /\ list[k].id <= a
        OBVIOUS
    <2>1. list[k].id \in Nat \ {0}
        BY EventsHaveIds
    <2>2. list[k].id = a \/ list[k].id < a
        BY <1>4 DEF InOrder
    <2>3. \A m \in Nat : m = a \/ m < a => m <= a
        <3> HIDE DEF a
        <3>1. QED
            BY <1>5
    <2>4. QED
        BY Zenon, <2>1, <2>2, <2>3
<1> HIDE DEF len, a, b, first
<1>10. j = n + 1 \/ (j \in 1..n /\ len - n + j \in 1..len /\ r[j] = list[len - n + j])
    <2>1. j = n + 1 \/ j \in 1..n
        BY <1>1, <1>2
    <2>2. j \in 1..n => len - n + j \in 1..len
        BY <1>2
    <2>3. j \in 1..n => r[j] = list[len - n + j]
        BY <1>1
    <2>4. QED
        BY Zenon, <2>1, <2>2, <2>3
<1>11. id <= a
    <2> SUFFICES ASSUME a < id PROVE FALSE
        BY <1>5, <1>7
    <2>1. /\ SampleOf(a + 1) # SampleOf(a) /\ SampleOf(b - 1) # SampleOf(b)
          /\ b - 1 \in Nat \ {0}
        BY <1>2, <1>5, <1>7, <1>8 DEF MayFollow
    <2>2. /\ SampleOf(a) <= SampleOf(a + 1) /\ SampleOf(a + 1) <= SampleOf(id)
          /\ SampleOf(id) <= SampleOf(b - 1) /\ SampleOf(b - 1) <= SampleOf(b)
        BY <1>2, <1>5, <1>7, <2>1, SamplesGrow
    <2>3. /\ SampleOf(a) \in Nat /\ SampleOf(a + 1) \in Nat /\ SampleOf(id) \in Nat
          /\ SampleOf(b - 1) \in Nat /\ SampleOf(b) \in Nat
        BY <1>2, <1>5, <1>7, <2>1, SampleOfIds
    <2>4. SampleOf(a) < SampleOf(id) /\ SampleOf(id) < SampleOf(b)
        <3> DEFINE sa == SampleOf(a)
                   sb == SampleOf(b)
                   si == SampleOf(id)
                   na == SampleOf(a + 1)
                   pb == SampleOf(b - 1)
        <3>1. /\ sa \in Nat /\ na \in Nat /\ si \in Nat /\ pb \in Nat /\ sb \in Nat
              /\ sa <= na /\ na <= si /\ si <= pb /\ pb <= sb /\ na # sa /\ pb # sb
            BY Zenon, <2>1, <2>2, <2>3
        <3> HIDE DEF sa, sb, si, na, pb
        <3>2. sa < si /\ si < sb
            BY <3>1
        <3>3. QED
            BY <3>2 DEF sa, sb, si
    <2>5. CASE j = n + 1
        BY <1>1, <2>3, <2>4, <2>5 DEF b
    <2>6. CASE j \in 1..n /\ len - n + j \in 1..len /\ r[j] = list[len - n + j]
        <3>1. list[len - n + j].id \in Nat \ {0} /\ list[len - n + j].id <= a
            BY <1>9, <2>6
        <3>2. SampleOf(list[len - n + j].id) <= SampleOf(a)
            BY <1>5, <3>1, SamplesGrow
        <3>3. SampleOf(id) <= SampleOf(a)
            BY <2>6, <3>2
        <3>4. QED
            BY <2>3, <2>4, <3>3
    <2>7. QED
        BY <1>10, <2>5, <2>6
<1>12. \E k \in 1..len : SampleOf(id) = SampleOf(list[k].id)
    <2>1. CASE j = n + 1
        <3>1. SampleOf(id) = SampleOf(b)
            BY <1>1, <2>1 DEF b
        <3>2. SampleOf(id) <= SampleOf(a) /\ SampleOf(a) <= SampleOf(b)
            <4>1. a <= b
                BY <1>2, <1>5, <1>8 DEF MayFollow
            <4>2. QED
                BY <1>2, <1>5, <1>7, <1>11, <4>1, SamplesGrow
        <3>3. SampleOf(a) \in Nat /\ SampleOf(b) \in Nat
            BY <1>2, <1>5, SampleOfIds
        <3>4. SampleOf(id) = SampleOf(a)
            BY <3>1, <3>2, <3>3
        <3>5. QED
            BY <1>4, <3>4 DEF a
    <2>2. CASE j \in 1..n /\ len - n + j \in 1..len /\ r[j] = list[len - n + j]
        BY <2>2
    <2>3. QED
        BY <1>10, <2>1, <2>2
<1>13. list[1].id <= first
    <2>1. 1 = len - n + 1 \/ 1 < len - n + 1
        BY <1>2, <1>4
    <2>2. 1 < len - n + 1 => list[1].id < list[len - n + 1].id
        BY <1>4 DEF InOrder, len
    <2>3. QED
        BY <1>5, <2>1, <2>2 DEF first
<1>14. id \in list[1].id..a
    BY <1>5, <1>7, <1>11, <1>13
<1>15. PICK k \in 1..len : list[k].id = id
    BY <1>12, <1>14 DEF Whole, len, a
<1>16. ~(k < len - n + 1)
    <2> SUFFICES ASSUME k < len - n + 1 PROVE FALSE
        OBVIOUS
    <2>1. list[k].id < first
        BY <1>4 DEF InOrder, len, first
    <2>2. QED
        BY <1>5, <1>7, <1>15, <2>1
<1>17. k - len + n \in 1..n /\ len - n + (k - len + n) = k
    BY <1>2, <1>16
<1>18. r[k - len + n].id = id /\ k - len + n \in 1..Len(r)
    BY <1>1, <1>15, <1>17
<1>19. QED
    BY <1>18

\* A list in order whose samples are whole is what the gauges may show.
LEMMA WholeLists ==
    ASSUME NEW list \in Seq(Proved!Event), NEW last \in Nat, InOrder(list, last), Whole(list),
           NEW j \in 1..Len(list),
           SampleOf(list[j].id) # SampleOf(list[1].id),
           SampleOf(list[j].id) # SampleOf(list[Len(list)].id),
           NEW n \in 1..Families
    PROVE  \E k \in 1..Len(list) : list[k].id = (SampleOf(list[j].id) - 1) * Families + n
<1> DEFINE s == SampleOf(list[j].id)
           id == (s - 1) * Families + n
           first == list[1].id
           a == list[Len(list)].id
<1>0. Families \in Nat
    BY MetricsAssumption DEF MetricsAssumption
<1>1. 1 \in 1..Len(list) /\ Len(list) \in 1..Len(list)
    OBVIOUS
<1>2. first \in Nat \ {0} /\ a \in Nat \ {0} /\ list[j].id \in Nat \ {0}
    BY <1>1, EventsHaveIds
<1>3. first <= list[j].id /\ list[j].id <= a
    <2>1. first = list[j].id \/ first < list[j].id
        <3>1. j = 1 \/ 1 < j
            OBVIOUS
        <3>2. QED
            BY <1>1, <3>1 DEF InOrder
    <2>2. list[j].id = a \/ list[j].id < a
        <3>1. j = Len(list) \/ j < Len(list)
            OBVIOUS
        <3>2. QED
            BY <1>1, <3>1 DEF InOrder
    <2>3. QED
        BY <1>2, <2>1, <2>2
<1>4. s \in Nat \ {0} /\ SampleOf(first) \in Nat \ {0} /\ SampleOf(a) \in Nat \ {0}
    BY <1>2, SampleOfIds
<1>5. SampleOf(first) <= s /\ s <= SampleOf(a)
    BY <1>2, <1>3, SamplesGrow
<1>6. SampleOf(first) < s /\ s < SampleOf(a)
    BY <1>4, <1>5
<1> HIDE DEF s
<1>7. (s - 1) * Families \in Nat
    BY <1>0, <1>4
<1>8. id \in Nat \ {0}
    BY <1>0, <1>7
<1>9. SampleOf(id) = s
    <2> DEFINE before == (s - 1) * Families
    <2>1. before < id /\ id <= before + Families
        <3> HIDE DEF before
        <3>1. QED
            BY <1>0, <1>7 DEF before
    <2>2. QED
        BY <1>4, <1>8, <2>1, SampleIsUnique
<1> HIDE DEF id, first, a
<1>10. ~(id <= first)
    BY <1>2, <1>4, <1>6, <1>8, <1>9, SamplesGrow
<1>11. ~(a <= id)
    BY <1>2, <1>4, <1>6, <1>8, <1>9, SamplesGrow
<1>12. id \in first..a
    BY <1>2, <1>8, <1>10, <1>11
<1>13. \E k \in 1..Len(list) : list[k].id = id
    BY <1>9, <1>12 DEF Whole, s, first, a
<1>14. QED
    BY <1>13 DEF id, s

-----------------------------------------------------------------------------
(* MetricsStream: the invariant. *)

Handler == [lastBatch : Nat, currentBatch : Nat, forwardBatch : BOOLEAN]
Stream == [interval : Interval, state : {"idle", "connecting", "streaming"}]
Queued == queue[Dashboard]
Sent == cursor[Dashboard]

\* What the variables hold.
MetricsState ==
    /\ times \in Seq(Nat) /\ published \in Nat /\ recent \in Seq(Proved!Event)
    /\ queue \in [{Dashboard} -> Seq(Proved!Event) \union {NoQueue}]
    /\ cursor \in [{Dashboard} -> Nat]
    /\ handler \in Handler /\ stream \in Stream
    /\ lists \in [Interval -> Seq(Proved!Event)] /\ gap \in [Interval -> BOOLEAN]

\* The times of the samples tell them apart: a reading is done before the next
\* tick.  Only samples that were taken have events.
SamplesInOrder ==
    /\ \A s \in 1..Len(times) : times[s] # 0 /\ times[s] < (Len(times) + 1) * Period
    /\ \A s, t \in 1..Len(times) : s < t => times[s] < times[t]
    /\ published <= Len(times) * Families

\* The cursor is the end of the list shown; a handler is new without a
\* connection, and has forwarded something once it has seen an event.
StreamInv ==
    /\ stream.state = "streaming" <=> Queued # NoQueue
    /\ stream.state # "streaming" => handler = NewHandler
    /\ handler.currentBatch = 0 => handler = NewHandler
    /\ handler.currentBatch # 0 =>
          Sent # 0 /\ handler.currentBatch - handler.lastBatch < stream.interval
    /\ Sent = 0 => stream.state = "idle" \/ Shown = << >>
    /\ Sent # 0 => /\ stream.state # "idle" /\ Shown # << >>
                   /\ Shown[Len(Shown)].id = Sent

\* Nothing was dropped of what follows the events the handler h has seen: the
\* queue is the newest events, the last one seen is right before them, and it
\* was forwarded, or else what was forwarded ends with a sample.
NothingLost(q, h, sent) ==
    LET seen == published - Len(q) IN
    /\ \A k \in 1..Len(q) : q[k].id = seen + k
    /\ h.currentBatch = 0 /\ sent # 0 => seen = sent
    /\ h.currentBatch # 0 =>
          /\ seen \in Nat \ {0} /\ h.currentBatch = times[SampleOf(seen)]
          /\ h.forwardBatch = TRUE => seen = sent
          /\ h.forwardBatch = FALSE => sent < seen /\ SampleOf(sent + 1) # SampleOf(sent)

QueueInv ==
    Queued # NoQueue =>
        /\ Proved!QueueOK(Queued, {Sent}, published)
        /\ gap[stream.interval] = FALSE => NothingLost(Queued, handler, Sent)

ListsInv ==
    \A i \in Interval : /\ InOrder(lists[i], published)
                        /\ gap[i] = FALSE => Whole(lists[i])

MetricsInv ==
    /\ MetricsState /\ SamplesInOrder /\ Proved!HistoryIsNewest
    /\ StreamInv /\ QueueInv /\ ListsInv

-----------------------------------------------------------------------------
(* MetricsStream: the invariant is inductive. *)

\* The initial state.
LEMMA MetricsInitially == MetricsInit => MetricsInv
<1> SUFFICES ASSUME MetricsInit PROVE MetricsInv
    OBVIOUS
<1>1. MetricsState
    <2>1. stream \in Stream /\ handler \in Handler
        BY DEF MetricsInit, Stream, Handler, NewHandler
    <2>2. QED
        BY <2>1 DEF MetricsInit, MetricsState
<1>2. SamplesInOrder
    BY MetricsAssumption DEF MetricsInit, SamplesInOrder, MetricsAssumption
<1>3. Proved!HistoryIsNewest
    BY BrokerAssumption DEF MetricsInit, Proved!HistoryIsNewest, BrokerAssumption
<1>4. stream.interval \in Interval /\ stream.state = "connecting"
    BY DEF MetricsInit
<1>5. StreamInv /\ QueueInv
    BY <1>4 DEF MetricsInit, StreamInv, QueueInv, Queued, Sent, NewHandler, Shown
<1>6. ListsInv
    BY DEF MetricsInit, ListsInv, InOrder, Whole
<1>7. QED
    BY <1>1, <1>2, <1>3, <1>5, <1>6 DEF MetricsInv

\* The cursor is an event that was published.
LEMMA SentIsPublished ==
    ASSUME MetricsInv
    PROVE  Sent \in Nat /\ Sent <= published /\ stream.interval \in Interval
<1>1. Sent \in Nat /\ stream.interval \in Interval /\ published \in Nat
    BY DEF MetricsInv, MetricsState, Sent, Stream
<1>2. CASE Sent # 0
    <2>1. Shown \in Seq(Proved!Event) /\ Shown # << >> /\ Shown[Len(Shown)].id = Sent
        BY <1>1, <1>2 DEF MetricsInv, MetricsState, StreamInv, Shown
    <2>2. Len(Shown) \in 1..Len(Shown)
        BY <2>1
    <2>3. InOrder(Shown, published)
        BY <1>1 DEF MetricsInv, ListsInv, Shown
    <2>4. QED
        BY <1>1, <2>1, <2>2, <2>3 DEF InOrder
<1>3. QED
    BY <1>1, <1>2

\* Every published event has the time of its sample.
LEMMA EventsHaveTimes ==
    ASSUME MetricsState, SamplesInOrder, NEW id \in 1..published
    PROVE  SampleOf(id) \in 1..Len(times) /\ times[SampleOf(id)] \in Nat \ {0}
<1>1. Len(times) \in Nat /\ Len(times) * Families \in Nat
    BY MetricsAssumption DEF MetricsState, MetricsAssumption
<1>2. id \in 1..(Len(times) * Families)
    BY <1>1 DEF MetricsState, SamplesInOrder
<1>3. SampleOf(id) \in 1..Len(times)
    BY <1>1, <1>2, SamplesAreTaken
<1>4. QED
    BY <1>3 DEF MetricsState, SamplesInOrder

\* A new sample is later than every other one.
LEMMA TickKeepsMetrics ==
    ASSUME MetricsInv, Tick
    PROVE  MetricsInv'
<1> DEFINE n == Len(times)
           next == (n + 1) * Period
<1>1. PICK delay \in 0..MaxDelay : times' = Append(times, next + delay)
    BY DEF Tick
<1>2. /\ n \in Nat /\ Period \in Nat /\ Families \in Nat /\ delay \in Nat /\ delay < Period
    BY MetricsAssumption DEF MetricsInv, MetricsState, MetricsAssumption
<1>3. next \in Nat /\ (n + 2) * Period = next + Period /\ next # 0
    <2>1. next = n * Period + Period
        BY <1>2
    <2>2. (n + 2) * Period = n * Period + Period + Period
        BY <1>2
    <2>3. n * Period \in Nat
        BY <1>2
    <2> HIDE DEF next
    <2>4. QED
        BY <1>2, <2>1, <2>2, <2>3
<1>4. (n + 1) * Families = n * Families + Families /\ n * Families \in Nat
    BY <1>2
<1> HIDE DEF next
<1>5. /\ times' \in Seq(Nat) /\ Len(times') = n + 1 /\ times'[n + 1] = next + delay
      /\ \A s \in 1..n : times'[s] = times[s]
    BY <1>1, <1>2, <1>3 DEF MetricsInv, MetricsState
<1>6. \A s \in 1..n : times[s] \in Nat \ {0} /\ times[s] < next
    BY DEF MetricsInv, MetricsState, SamplesInOrder, next
<1>7. UNCHANGED <<published, recent, queue, cursor, handler, stream, lists, gap, troubles>>
    BY DEF Tick
<1>8. MetricsState'
    BY <1>5, <1>7 DEF MetricsInv, MetricsState
<1>9. SamplesInOrder'
    <2>1. (Len(times') + 1) * Period = next + Period
        <3>1. n + 1 + 1 = n + 2
            BY <1>2
        <3>2. QED
            BY <1>3, <1>5, <3>1
    <2>2. ASSUME NEW s \in 1..(n + 1)
          PROVE  times'[s] # 0 /\ times'[s] < next + Period
        <3>1. CASE s = n + 1
            BY <1>2, <1>3, <1>5, <3>1
        <3>2. CASE s # n + 1
            <4>1. s \in 1..n
                BY <1>2, <3>2
            <4>2. \A v \in Nat : v < next => v < next + Period
                BY <1>2, <1>3
            <4>3. QED
                BY <1>5, <1>6, <4>1, <4>2
        <3>3. QED
            BY <3>1, <3>2
    <2>3. ASSUME NEW s \in 1..(n + 1), NEW t \in 1..(n + 1), s < t
          PROVE  times'[s] < times'[t]
        <3>1. s \in 1..n
            BY <1>2, <2>3
        <3>2. CASE t = n + 1
            BY <1>2, <1>3, <1>5, <1>6, <3>1, <3>2
        <3>3. CASE t # n + 1
            <4>1. t \in 1..n
                BY <1>2, <3>3
            <4>2. QED
                BY <1>5, <2>3, <3>1, <4>1 DEF MetricsInv, SamplesInOrder
        <3>4. QED
            BY <3>2, <3>3
    <2>4. published' <= Len(times') * Families
        BY <1>2, <1>4, <1>5, <1>7 DEF MetricsInv, MetricsState, SamplesInOrder
    <2>5. QED
        BY <1>5, <2>1, <2>2, <2>3, <2>4 DEF SamplesInOrder
<1>10. Proved!HistoryIsNewest' /\ StreamInv'
    BY <1>7 DEF MetricsInv, Proved!HistoryIsNewest, StreamInv, Queued, Sent, Shown
<1>11. ListsInv'
    BY <1>7 DEF MetricsInv, ListsInv
<1>12. QueueInv'
    <2> SUFFICES ASSUME Queued # NoQueue
                 PROVE  /\ Proved!QueueOK(Queued, {Sent}, published)
                        /\ gap[stream.interval] = FALSE => NothingLost(Queued, handler, Sent)'
        BY <1>7 DEF QueueInv, Queued, Sent, Proved!QueueOK
    <2>1. Proved!QueueOK(Queued, {Sent}, published)
        BY DEF MetricsInv, QueueInv
    <2>2. ASSUME gap[stream.interval] = FALSE
          PROVE  NothingLost(Queued, handler, Sent)'
        <3> DEFINE seen == published - Len(Queued)
        <3>1. NothingLost(Queued, handler, Sent)
            BY <2>2 DEF MetricsInv, QueueInv
        <3>2. ASSUME seen \in Nat \ {0}
              PROVE  times'[SampleOf(seen)] = times[SampleOf(seen)]
            <4>1. Len(Queued) \in Nat /\ published \in Nat
                BY DEF MetricsInv, MetricsState, Queued
            <4>2. seen \in 1..published
                BY <3>2, <4>1
            <4>3. SampleOf(seen) \in 1..n
                BY <4>2, EventsHaveTimes DEF MetricsInv
            <4>4. QED
                BY <1>5, <4>3
        <3>3. QED
            BY <1>7, <3>1, <3>2 DEF NothingLost, Queued, Sent, SampleOf
    <2>3. QED
        BY <2>1, <2>2
<1>13. QED
    BY <1>8, <1>9, <1>10, <1>11, <1>12 DEF MetricsInv

\* The new event goes to the end of the queue, or is dropped and the gap noted.
LEMMA PublishKeepsMetrics ==
    ASSUME MetricsInv, PublishSample
    PROVE  MetricsInv'
<1> DEFINE event == [id |-> published + 1, apps |-> FALSE]
           i == stream.interval
           full == Len(Queued) >= QueueSize
<1>1. /\ published' = published + 1
      /\ recent' = Proved!Remember(event)
      /\ queue' = [c \in {Dashboard} |-> IF queue[c] = NoQueue THEN NoQueue
                                         ELSE Proved!Offer(queue[c], event)]
      /\ gap' = [gap EXCEPT ![i] = @ \/ (Queued # NoQueue /\ full)]
      /\ UNCHANGED <<times, cursor, handler, stream, lists, troubles>>
      /\ published < Len(times) * Families
    BY BrokerIsProved DEF PublishSample, Broker!Publish, Queued
<1>2. /\ published \in Nat /\ recent \in Seq(Proved!Event) /\ i \in Interval
      /\ event \in Proved!Event /\ event.id = published + 1
      /\ Len(times) \in Nat /\ Families \in Nat /\ Len(times) * Families \in Nat
    BY MetricsAssumption
       DEF MetricsInv, MetricsState, Stream, Proved!Event, MetricsAssumption
<1>3. Sent \in Nat /\ Sent <= published
    BY SentIsPublished
<1>4. recent' \in Seq(Proved!Event) /\ Proved!HistoryIsNewest'
    BY <1>1, <1>2, BrokerIsProved, Proved!RememberKeepsHistory DEF MetricsInv
<1> HIDE DEF event
<1>5. Queued' = IF Queued = NoQueue THEN NoQueue ELSE Proved!Offer(Queued, event)
    BY <1>1 DEF Queued
<1>6. ASSUME Queued # NoQueue
      PROVE  /\ Queued \in Seq(Proved!Event)
             /\ Queued' = Proved!Offer(Queued, event)
             /\ Queued' \in Seq(Proved!Event)
             /\ Proved!QueueOK(Queued', {Sent}, published + 1)
    <2>1. Queued \in Seq(Proved!Event)
        BY <1>6 DEF MetricsInv, MetricsState, Queued
    <2>2. Proved!QueueOK(Queued, {Sent}, published)
        BY <1>6 DEF MetricsInv, QueueInv
    <2>3. {Sent} \in SUBSET Nat /\ \A n \in {Sent} : n <= published
        BY <1>3
    <2>4. /\ Proved!Offer(Queued, event) \in Seq(Proved!Event)
          /\ Proved!QueueOK(Proved!Offer(Queued, event), {Sent}, published + 1)
        BY <1>2, <2>1, <2>2, <2>3, BrokerIsProved, Proved!OfferKeepsQueue
    <2>5. QED
        BY <1>5, <1>6, <2>1, <2>4
<1>7. (Queued # NoQueue) <=> (Queued' # NoQueue)
    <2>1. NoQueue \notin Seq(Proved!Event)
        BY BrokerIsProved DEF Proved!ClosedIsNoChannel
    <2>2. QED
        BY <1>5, <1>6, <2>1
<1>8. MetricsState'
    <2>1. queue' \in [{Dashboard} -> Seq(Proved!Event) \union {NoQueue}]
        <3>1. Queued' \in Seq(Proved!Event) \union {NoQueue}
            BY <1>5, <1>6
        <3>2. queue' = [c \in {Dashboard} |-> Queued']
            BY <1>1 DEF Queued
        <3>3. QED
            BY <3>1, <3>2
    <2>2. gap' \in [Interval -> BOOLEAN]
        BY <1>1 DEF MetricsInv, MetricsState
    <2>3. QED
        BY <1>1, <1>2, <1>4, <2>1, <2>2 DEF MetricsInv, MetricsState
<1>9. SamplesInOrder'
    BY <1>1, <1>2 DEF MetricsInv, SamplesInOrder
<1>10. StreamInv'
    <2>1. Sent' = Sent /\ Shown' = Shown
        BY <1>1 DEF Sent, Shown
    <2>2. QED
        BY <1>1, <1>7, <2>1 DEF MetricsInv, StreamInv, NewHandler
<1>11. ListsInv'
    <2> SUFFICES ASSUME NEW k \in Interval
                 PROVE  /\ InOrder(lists[k], published + 1)
                        /\ gap'[k] = FALSE => Whole(lists[k])
        BY <1>1 DEF ListsInv
    <2>1. InOrder(lists[k], published + 1)
        <3>1. InOrder(lists[k], published)
            BY DEF MetricsInv, ListsInv
        <3>2. \A j \in 1..Len(lists[k]) : lists[k][j].id \in Nat
            BY EventsHaveIds DEF MetricsInv, MetricsState
        <3>3. \A id \in Nat : id <= published => id <= published + 1
            BY <1>2
        <3>4. QED
            BY <3>1, <3>2, <3>3 DEF InOrder
    <2>2. gap'[k] = FALSE => gap[k] = FALSE
        <3>1. k # i => gap'[k] = gap[k]
            BY <1>1 DEF MetricsInv, MetricsState
        <3>2. gap'[i] = (gap[i] \/ (Queued # NoQueue /\ full)) /\ gap[i] \in BOOLEAN
            BY <1>1, <1>2 DEF MetricsInv, MetricsState
        <3>3. QED
            BY Zenon, <3>1, <3>2
    <2>3. QED
        BY <2>1, <2>2 DEF MetricsInv, ListsInv
<1>12. QueueInv'
    <2> SUFFICES ASSUME Queued # NoQueue, gap'[i] = FALSE
                 PROVE  NothingLost(Queued, handler, Sent)'
        <3>1. Sent' = Sent
            BY <1>1 DEF Sent
        <3>2. QED
            BY <1>1, <1>6, <1>7, <3>1 DEF QueueInv
    <2>1. gap[i] = FALSE /\ ~full
        <3>1. gap'[i] = (gap[i] \/ (Queued # NoQueue /\ full)) /\ gap[i] \in BOOLEAN
            BY <1>1, <1>2 DEF MetricsInv, MetricsState
        <3>2. QED
            BY Zenon, <3>1
    <2>2. Queued \in Seq(Proved!Event) /\ Len(Queued) \in Nat
        BY <1>6
    <2>3. Queued' = Append(Queued, event)
        <3>1. Len(Queued) < QueueSize
            BY <2>1, <2>2, BrokerAssumption DEF BrokerAssumption
        <3>2. QED
            BY <1>6, <3>1 DEF Proved!Offer
    <2>4. NothingLost(Queued, handler, Sent)
        BY <2>1 DEF MetricsInv, QueueInv
    <2> DEFINE seen == published - Len(Queued)
    <2>5. /\ Len(Queued') = Len(Queued) + 1
          /\ \A k \in 1..Len(Queued) : Queued'[k] = Queued[k]
          /\ Queued'[Len(Queued) + 1] = event
        BY <1>2, <2>2, <2>3
    <2>6. published' - Len(Queued') = seen
        BY <1>1, <1>2, <2>2, <2>5
    <2>7. \A k \in 1..Len(Queued') : Queued'[k].id = seen + k
        <3> SUFFICES ASSUME NEW k \in 1..Len(Queued') PROVE Queued'[k].id = seen + k
            OBVIOUS
        <3>1. CASE k = Len(Queued) + 1
            <4>1. Queued'[k].id = published + 1
                BY <1>2, <2>5, <3>1
            <4>2. QED
                BY <1>2, <2>2, <3>1, <4>1
        <3>2. CASE k # Len(Queued) + 1
            <4>1. k \in 1..Len(Queued)
                BY <2>2, <2>5, <3>2
            <4>2. QED
                BY <2>4, <2>5, <4>1 DEF NothingLost
        <3>3. QED
            BY <3>1, <3>2
    <2>8. handler' = handler /\ Sent' = Sent /\ times' = times
        BY <1>1 DEF Sent
    <2> HIDE DEF seen
    <2>9. QED
        BY <2>4, <2>6, <2>7, <2>8 DEF NothingLost, seen, SampleOf
<1>13. QED
    BY <1>4, <1>8, <1>9, <1>10, <1>11, <1>12 DEF MetricsInv

\* A handler that has forwarded something keeps its pace, and what it has not
\* seen before it forwards first.
LEMMA BatchedKeepsPace ==
    ASSUME NEW h \in Handler, NEW at \in Nat \ {0}, NEW i \in Nat \ {0},
           h.currentBatch = 0 => h = NewHandler,
           h.currentBatch # 0 => h.currentBatch - h.lastBatch < i
    PROVE  /\ Batched(h, at, i) \in Handler /\ Batched(h, at, i).currentBatch = at
           /\ at - Batched(h, at, i).lastBatch < i
           /\ at = h.currentBatch => Batched(h, at, i) = h
           /\ h.currentBatch = 0 => Batched(h, at, i).forwardBatch = TRUE
<1> DEFINE forward == h.lastBatch = 0 \/ at - h.lastBatch >= i
<1>1. CASE at = h.currentBatch
    BY <1>1 DEF Batched, Handler
<1>2. CASE at # h.currentBatch
    <2>1. Batched(h, at, i) = [lastBatch |-> IF forward THEN at ELSE h.lastBatch,
                               currentBatch |-> at, forwardBatch |-> forward]
        BY <1>2 DEF Batched
    <2>2. h.lastBatch \in Nat
        BY DEF Handler
    <2>3. CASE forward
        <3>1. Batched(h, at, i) = [lastBatch |-> at, currentBatch |-> at, forwardBatch |-> TRUE]
            BY <2>1, <2>3
        <3>2. QED
            BY <1>2, <3>1 DEF Handler
    <2>4. CASE ~forward
        <3>1. h.lastBatch # 0 /\ at - h.lastBatch < i
            BY <2>2, <2>4
        <3>2. h.currentBatch # 0
            BY <3>1 DEF NewHandler
        <3>3. QED
            BY <1>2, <2>1, <2>2, <2>4, <3>1, <3>2 DEF Handler
    <2>5. QED
        BY <2>3, <2>4
<1>3. QED
    BY <1>1, <1>2

\* The handler takes the head of the queue.  Forwarded, the event breaks no
\* sample of the list; skipped, it leaves one that ends with a sample.
LEMMA ForwardKeepsMetrics ==
    ASSUME MetricsInv, ForwardBatch
    PROVE  MetricsInv'
<1> DEFINE q == Queued
           e == Head(q)
           i == stream.interval
           at == OccurredAt(e)
           h == Batched(handler, at, i)
           seen == published - Len(q)
<1>1. /\ q # NoQueue /\ q # << >> /\ handler' = h
      /\ queue' = [queue EXCEPT ![Dashboard] = Tail(@)]
      /\ IF h.forwardBatch
         THEN /\ cursor' = [cursor EXCEPT ![Dashboard] = e.id]
              /\ lists' = [lists EXCEPT ![i] = Reduced(lists[i], e)]
         ELSE UNCHANGED <<cursor, lists>>
      /\ UNCHANGED <<times, published, recent, stream, gap, troubles>>
    BY DEF ForwardBatch, Queued
<1>2. /\ q \in Seq(Proved!Event) /\ published \in Nat /\ i \in Interval /\ i \in Nat \ {0}
      /\ handler \in Handler /\ lists[i] \in Seq(Proved!Event) /\ Shown = lists[i]
    BY <1>1, MetricsAssumption
       DEF MetricsInv, MetricsState, Queued, Stream, MetricsAssumption, Shown
<1>3. Sent \in Nat /\ Sent <= published
    BY SentIsPublished
<1>4. /\ Proved!QueueOK(q, {Sent}, published)
      /\ gap[i] = FALSE => NothingLost(q, handler, Sent)
    BY <1>1 DEF MetricsInv, QueueInv
<1>5. /\ Tail(q) \in Seq(Proved!Event) /\ e \in Proved!Event /\ e.id <= published
      /\ Proved!QueueOK(Tail(q), {Sent} \union {e.id}, published)
    <2>1. {Sent} \in SUBSET Nat
        BY <1>3
    <2>2. QED
        BY <1>1, <1>2, <1>4, <2>1, BrokerIsProved, Proved!TailKeepsQueue
<1>6. /\ Len(q) \in Nat \ {0} /\ Len(Tail(q)) = Len(q) - 1 /\ e = q[1] /\ 1 \in 1..Len(q)
      /\ \A k \in 1..Len(Tail(q)) : Tail(q)[k] = q[k + 1] /\ k + 1 \in 1..Len(q)
    BY <1>1, <1>2
<1>7. e.id \in Nat \ {0} /\ e.id \in 1..published /\ Sent < e.id
    <2>1. e.id \in Nat \ {0}
        BY <1>5 DEF Proved!Event
    <2>2. Sent < e.id
        BY <1>4, <1>6 DEF Proved!QueueOK
    <2>3. QED
        BY <1>2, <1>5, <2>1, <2>2
<1>8. at = times[SampleOf(e.id)] /\ at \in Nat \ {0}
    <2>1. at = times[SampleOf(e.id)]
        BY DEF OccurredAt
    <2>2. QED
        BY <1>7, <2>1, EventsHaveTimes DEF MetricsInv
<1>9. /\ handler.currentBatch = 0 => handler = NewHandler
      /\ handler.currentBatch # 0 => Sent # 0 /\ handler.currentBatch - handler.lastBatch < i
      /\ stream.state = "streaming"
      /\ Sent = 0 => lists[i] = << >>
      /\ Sent # 0 => lists[i] # << >> /\ lists[i][Len(lists[i])].id = Sent
    BY <1>1, <1>2 DEF MetricsInv, StreamInv
<1> HIDE DEF q, e, i, at
<1>10. /\ h \in Handler /\ h.currentBatch = at /\ at - h.lastBatch < i
       /\ at = handler.currentBatch => h = handler
       /\ handler.currentBatch = 0 => h.forwardBatch = TRUE
    <2>1. handler \in Handler /\ at \in Nat \ {0} /\ i \in Nat \ {0}
        BY <1>2, <1>8
    <2>2. /\ handler.currentBatch = 0 => handler = NewHandler
          /\ handler.currentBatch # 0 => handler.currentBatch - handler.lastBatch < i
        BY <1>9
    <2>3. QED
        BY Zenon, <2>1, <2>2, BatchedKeepsPace
<1> HIDE DEF h
<1>11. Queued' = Tail(q) /\ Queued' # NoQueue
    <2>1. Queued' = Tail(q)
        BY <1>1 DEF MetricsInv, MetricsState, Queued, q
    <2>2. NoQueue \notin Seq(Proved!Event)
        BY BrokerIsProved DEF Proved!ClosedIsNoChannel
    <2>3. QED
        BY <1>5, <2>1, <2>2
<1>12. /\ UNCHANGED <<times, published, recent, stream, gap>>
       /\ InOrder(lists[i], published)
       /\ gap[i] = FALSE => Whole(lists[i])
    BY <1>1, <1>2 DEF MetricsInv, ListsInv
<1>13. /\ SamplesInOrder' /\ Proved!HistoryIsNewest'
       /\ queue' \in [{Dashboard} -> Seq(Proved!Event) \union {NoQueue}]
       /\ handler' \in Handler
    <2>1. queue' \in [{Dashboard} -> Seq(Proved!Event) \union {NoQueue}]
        BY <1>1, <1>5 DEF MetricsInv, MetricsState, Queued, q
    <2>2. QED
        BY <1>1, <1>10, <2>1 DEF MetricsInv, SamplesInOrder, Proved!HistoryIsNewest
<1>14. h.forwardBatch \in BOOLEAN
    BY <1>10 DEF Handler
<1>15. gap[i] = FALSE => e.id = seen + 1 /\ seen \in Int
    <2> SUFFICES ASSUME gap[i] = FALSE PROVE e.id = seen + 1 /\ seen \in Int
        OBVIOUS
    <2>1. q[1].id = seen + 1
        BY <1>4, <1>6 DEF NothingLost
    <2>2. QED
        BY <1>2, <1>6, <2>1
<1>16. CASE h.forwardBatch = TRUE
    <2>1. /\ cursor' = [cursor EXCEPT ![Dashboard] = e.id]
          /\ lists' = [lists EXCEPT ![i] = Reduced(lists[i], e)]
        BY Zenon, <1>1, <1>16
    <2>2. Sent' = e.id
        BY <2>1 DEF Sent, MetricsInv, MetricsState
    <2>3. Reduced(lists[i], e) \in Seq(Proved!Event)
        BY <1>2, <1>5, ReducedList
    <2>4. /\ InOrder(Reduced(lists[i], e), published) /\ Reduced(lists[i], e) # << >>
          /\ Reduced(lists[i], e)[Len(Reduced(lists[i], e))].id = e.id
        <3>1. lists[i] # << >> => lists[i][Len(lists[i])].id < e.id
            BY <1>7, <1>9
        <3>2. QED
            BY <1>2, <1>5, <1>12, <3>1, ReducedInOrder
    <2>5. ASSUME gap[i] = FALSE
          PROVE  Whole(Reduced(lists[i], e))
        <3>1. ASSUME Sent # 0
              PROVE  MayFollow(Sent, e.id)
            <4>1. NothingLost(q, handler, Sent)
                BY <1>4, <2>5
            <4>2. e.id = seen + 1 /\ seen \in Int
                BY <1>15, <2>5
            <4>3. CASE handler.currentBatch = 0
                BY <3>1, <4>1, <4>2, <4>3 DEF NothingLost, MayFollow
            <4>4. CASE handler.currentBatch # 0 /\ handler.forwardBatch = TRUE
                BY <4>1, <4>2, <4>4 DEF NothingLost, MayFollow
            <4>5. CASE handler.currentBatch # 0 /\ handler.forwardBatch = FALSE
                <5>1. at # handler.currentBatch
                    BY <1>10, <1>16, <4>5
                <5>2. /\ handler.currentBatch = times[SampleOf(seen)]
                      /\ SampleOf(Sent + 1) # SampleOf(Sent)
                    BY <4>1, <4>5 DEF NothingLost
                <5>3. SampleOf(seen) # SampleOf(e.id)
                    BY <1>8, <5>1, <5>2
                <5>4. e.id - 1 = seen
                    BY <4>2
                <5>5. QED
                    BY <1>7, <5>2, <5>3, <5>4 DEF MayFollow
            <4>6. handler.forwardBatch \in BOOLEAN
                BY <1>2 DEF Handler
            <4>7. QED
                BY <4>3, <4>4, <4>5, <4>6
        <3>2. lists[i] # << >> => MayFollow(lists[i][Len(lists[i])].id, e.id)
            BY <1>9, <3>1
        <3>3. Whole(lists[i])
            BY <1>12, <2>5
        <3>4. QED
            BY <1>2, <1>5, <1>12, <3>2, <3>3, ReducedWhole
    <2>6. MetricsState'
        <3>1. /\ cursor' \in [{Dashboard} -> Nat]
              /\ lists' \in [Interval -> Seq(Proved!Event)]
            BY <1>2, <1>7, <2>1, <2>3 DEF MetricsInv, MetricsState
        <3>2. QED
            BY <1>12, <1>13, <3>1 DEF MetricsInv, MetricsState
    <2>7. lists'[i] = Reduced(lists[i], e) /\ \A k \in Interval : k # i => lists'[k] = lists[k]
        BY <1>2, <2>1 DEF MetricsInv, MetricsState
    <2>8. ListsInv'
        <3> SUFFICES ASSUME NEW k \in Interval
                     PROVE  /\ InOrder(lists'[k], published)
                            /\ gap[k] = FALSE => Whole(lists'[k])
            BY <1>12 DEF ListsInv
        <3>1. CASE k = i
            BY <2>4, <2>5, <2>7, <3>1
        <3>2. CASE k # i
            BY <2>7, <3>2 DEF MetricsInv, ListsInv
        <3>3. QED
            BY <3>1, <3>2
    <2>9. StreamInv'
        <3>1. Shown' = Reduced(lists[i], e)
            BY <1>12, <2>7 DEF Shown, i
        <3>2. /\ handler'.currentBatch # 0 /\ handler'.currentBatch - handler'.lastBatch < i
              /\ stream'.state = "streaming" /\ stream'.interval = i
            BY <1>1, <1>8, <1>9, <1>10, <1>12 DEF i
        <3>3. QED
            BY <1>7, <1>11, <2>2, <2>4, <3>1, <3>2 DEF StreamInv
    <2>10. QueueInv'
        <3>1. Proved!QueueOK(Tail(q), {e.id}, published)
            BY <1>5 DEF Proved!QueueOK
        <3>2. ASSUME gap[i] = FALSE
              PROVE  NothingLost(Queued, handler, Sent)'
            <4>1. NothingLost(q, handler, Sent)
                BY <1>4, <3>2
            <4>2. e.id = seen + 1 /\ seen \in Int
                BY <1>15, <3>2
            <4>3. published - Len(Tail(q)) = e.id
                BY <1>2, <1>6, <4>2
            <4>4. \A k \in 1..Len(Tail(q)) : Tail(q)[k].id = e.id + k
                <5> SUFFICES ASSUME NEW k \in 1..Len(Tail(q)) PROVE Tail(q)[k].id = e.id + k
                    OBVIOUS
                <5>1. Tail(q)[k] = q[k + 1] /\ k + 1 \in 1..Len(q)
                    BY <1>6
                <5>2. q[k + 1].id = seen + (k + 1)
                    BY <4>1, <5>1 DEF NothingLost
                <5> HIDE DEF seen
                <5>3. seen + (k + 1) = e.id + k
                    BY <4>2
                <5>4. QED
                    BY <5>1, <5>2, <5>3
            <4>5. handler'.currentBatch = times[SampleOf(e.id)] /\ handler'.currentBatch # 0
                  /\ handler'.forwardBatch = TRUE
                BY <1>1, <1>8, <1>10, <1>16
            <4>6. Queued' = Tail(q) /\ Sent' = e.id /\ times' = times /\ published' = published
                BY <1>11, <1>12, <2>2
            <4>7. QED
                BY <1>7, <4>3, <4>4, <4>5, <4>6 DEF NothingLost, SampleOf
        <3>3. QED
            BY <1>11, <1>12, <2>2, <3>1, <3>2 DEF QueueInv, i
    <2>11. QED
        BY <1>13, <2>6, <2>8, <2>9, <2>10 DEF MetricsInv
<1>17. CASE h.forwardBatch = FALSE
    <2>1. UNCHANGED <<cursor, lists>>
        BY Zenon, <1>1, <1>17
    <2>2. Sent' = Sent /\ Shown' = Shown
        BY <1>12, <2>1 DEF Sent, Shown
    <2>3. handler.currentBatch # 0
        BY <1>10, <1>17
    <2>4. MetricsState'
        BY <1>12, <1>13, <2>1 DEF MetricsInv, MetricsState
    <2>5. ListsInv'
        BY <1>12, <2>1 DEF MetricsInv, ListsInv
    <2>6. StreamInv'
        <3>1. /\ handler'.currentBatch # 0 /\ handler'.currentBatch - handler'.lastBatch < i
              /\ stream'.state = "streaming" /\ stream'.interval = i
            BY <1>1, <1>8, <1>9, <1>10, <1>12 DEF i
        <3>2. QED
            BY <1>2, <1>9, <1>11, <2>2, <2>3, <3>1 DEF StreamInv
    <2>7. QueueInv'
        <3>1. Proved!QueueOK(Tail(q), {Sent}, published)
            BY <1>5 DEF Proved!QueueOK
        <3>2. ASSUME gap[i] = FALSE
              PROVE  NothingLost(Queued, handler, Sent)'
            <4>1. NothingLost(q, handler, Sent)
                BY <1>4, <3>2
            <4>2. e.id = seen + 1 /\ seen \in Int
                BY <1>15, <3>2
            <4>3. published - Len(Tail(q)) = e.id
                BY <1>2, <1>6, <4>2
            <4>4. \A k \in 1..Len(Tail(q)) : Tail(q)[k].id = e.id + k
                <5> SUFFICES ASSUME NEW k \in 1..Len(Tail(q)) PROVE Tail(q)[k].id = e.id + k
                    OBVIOUS
                <5>1. Tail(q)[k] = q[k + 1] /\ k + 1 \in 1..Len(q)
                    BY <1>6
                <5>2. q[k + 1].id = seen + (k + 1)
                    BY <4>1, <5>1 DEF NothingLost
                <5> HIDE DEF seen
                <5>3. seen + (k + 1) = e.id + k
                    BY <4>2
                <5>4. QED
                    BY <5>1, <5>2, <5>3
            <4>5. handler'.currentBatch = times[SampleOf(e.id)]
                  /\ handler'.forwardBatch = FALSE
                BY <1>1, <1>8, <1>10, <1>17
            <4>6. Queued' = Tail(q) /\ times' = times /\ published' = published
                BY <1>11, <1>12
            <4>7. SampleOf(Sent + 1) # SampleOf(Sent)
                <5>1. CASE handler.forwardBatch = FALSE
                    BY <2>3, <4>1, <5>1 DEF NothingLost
                <5>2. CASE handler.forwardBatch = TRUE
                    <6>1. at # handler.currentBatch
                        BY <1>10, <1>17, <5>2
                    <6>2. handler.currentBatch = times[SampleOf(seen)] /\ seen = Sent
                        BY <2>3, <4>1, <5>2 DEF NothingLost
                    <6>3. SampleOf(seen) # SampleOf(e.id)
                        BY <1>8, <6>1, <6>2
                    <6>4. QED
                        BY <4>2, <6>2, <6>3
                <5>3. handler.forwardBatch \in BOOLEAN
                    BY <1>2 DEF Handler
                <5>4. QED
                    BY <5>1, <5>2, <5>3
            <4>8. handler'.currentBatch # 0
                BY <1>8, <4>5
            <4>9. QED
                BY <1>7, <2>2, <4>3, <4>4, <4>5, <4>6, <4>7, <4>8 DEF NothingLost, SampleOf
        <3>3. QED
            BY <1>11, <1>12, <2>2, <3>1, <3>2 DEF QueueInv, i
    <2>8. QED
        BY <1>13, <2>4, <2>5, <2>6, <2>7 DEF MetricsInv
<1>18. QED
    BY <1>14, <1>16, <1>17

\* A connection gets what the cursor misses, unless the history lacks some of it
\* and the gap is noted.
LEMMA ConnectKeepsMetrics ==
    ASSUME MetricsInv, Connect
    PROVE  MetricsInv'
<1> DEFINE q == Proved!Replay(Sent)
           i == stream.interval
           recall == Proved!Trim(recent, QueueSize)
<1>1. /\ stream.state = "connecting" /\ queue[Dashboard] = NoQueue
      /\ queue' = [queue EXCEPT ![Dashboard] = q]
      /\ handler' = NewHandler /\ stream' = [stream EXCEPT !.state = "streaming"]
      /\ gap' = [gap EXCEPT ![i] = @ \/ (Sent # 0 /\ published - Len(recall) > Sent)]
      /\ UNCHANGED <<times, published, recent, cursor, lists, troubles>>
    BY BrokerIsProved DEF Connect, Broker!Subscribe, Sent
<1>2. /\ published \in Nat /\ recent \in Seq(Proved!Event) /\ i \in Interval
      /\ QueueSize \in Nat \ {0} /\ stream \in Stream /\ gap[i] \in BOOLEAN
    BY BrokerAssumption DEF MetricsInv, MetricsState, Stream, BrokerAssumption
<1>3. Sent \in Nat /\ Sent <= published /\ Sent' = Sent
    BY <1>1, SentIsPublished DEF Sent
<1>4. /\ q \in Seq(Proved!Event) /\ Len(q) <= QueueSize
      /\ \A k \in 1..Len(q) : q[k].id = published - Len(q) + k
      /\ \A k \in 1..Len(q) : Sent = 0 \/ q[k].id > Sent
      /\ \A k \in 1..Len(recall) :
            Sent = 0 \/ recall[k].id > Sent => recall[k].id \in Proved!Ids(q)
    <2>1. Proved!HistoryIsNewest
        BY DEF MetricsInv
    <2>2. QED
        BY <1>2, <1>3, <2>1, BrokerIsProved, Proved!ReplayProperties
<1>5. /\ Len(recall) \in Nat /\ Len(recall) <= Len(recent)
      /\ \A k \in 1..Len(recall) : recall[k].id = published - Len(recall) + k
    <2>1. /\ recall \in Seq(Proved!Event)
          /\ Len(recall) = IF Len(recent) > QueueSize THEN QueueSize ELSE Len(recent)
          /\ \A k \in 1..Len(recall) : recall[k] = recent[Len(recent) - Len(recall) + k]
        BY <1>2, BrokerIsProved, Proved!TrimProperties
    <2>2. Len(recent) \in Nat /\ Len(recall) \in Nat /\ Len(recall) <= Len(recent)
        BY <1>2, <2>1
    <2> HIDE DEF recall
    <2>3. ASSUME NEW k \in 1..Len(recall)
          PROVE  recall[k].id = published - Len(recall) + k
        <3> DEFINE j == Len(recent) - Len(recall) + k
        <3>1. j \in 1..Len(recent)
            BY <2>2
        <3>2. recent[j].id = published - Len(recent) + j
            BY <3>1 DEF MetricsInv, Proved!HistoryIsNewest
        <3>3. published - Len(recent) + j = published - Len(recall) + k
            BY <1>2, <2>2
        <3>4. recall[k] = recent[j]
            BY <2>1
        <3> HIDE DEF j
        <3>5. QED
            BY <3>2, <3>3, <3>4
    <2>4. QED
        BY <2>2, <2>3
<1> HIDE DEF q, recall
<1>6. Queued' = q /\ Queued' # NoQueue /\ Len(q) \in Nat
    <2>1. Queued' = q
        BY <1>1 DEF MetricsInv, MetricsState, Queued
    <2>2. NoQueue \notin Seq(Proved!Event)
        BY BrokerIsProved DEF Proved!ClosedIsNoChannel
    <2>3. QED
        BY <1>4, <2>1, <2>2
<1>7. Proved!QueueOK(q, {Sent}, published)
    <2>1. \A k \in 1..Len(q) : q[k].id \in Nat \ {0}
        BY <1>4, EventsHaveIds
    <2>2. \A k \in 1..Len(q) : q[k].id <= published
        BY <1>2, <1>4, <1>6
    <2>3. ASSUME NEW j \in 1..Len(q), NEW k \in 1..Len(q), j < k
          PROVE  q[j].id < q[k].id
        <3>1. q[j].id = published - Len(q) + j /\ q[k].id = published - Len(q) + k
            BY <1>4
        <3>2. published - Len(q) + j < published - Len(q) + k
            BY <1>2, <1>6, <2>3
        <3>3. QED
            BY <3>1, <3>2
    <2>4. ASSUME NEW k \in 1..Len(q) PROVE Sent < q[k].id
        <3>1. q[k].id \in Nat \ {0} /\ (Sent = 0 \/ q[k].id > Sent)
            BY <1>4, <2>1
        <3>2. \A id \in Nat \ {0} : Sent = 0 \/ id > Sent => Sent < id
            BY <1>3
        <3>3. QED
            BY <3>1, <3>2
    <2>5. QED
        BY <1>4, <2>2, <2>3, <2>4 DEF Proved!QueueOK
<1>8. ASSUME gap'[i] = FALSE, Sent # 0
      PROVE  published - Len(q) = Sent
    <2> DEFINE seen == published - Len(q)
    <2>1. ~(published - Len(recall) > Sent)
        <3>1. gap'[i] = (gap[i] \/ (Sent # 0 /\ published - Len(recall) > Sent))
            BY <1>1, <1>2 DEF MetricsInv, MetricsState
        <3>2. QED
            BY Zenon, <1>8, <3>1
    <2>2. seen \in Int /\ seen >= Sent
        <3>1. CASE Len(q) = 0
            BY <1>2, <1>3, <3>1
        <3>2. CASE Len(q) # 0
            <4>1. 1 \in 1..Len(q)
                BY <1>6, <3>2
            <4>2. q[1].id = seen + 1 /\ Sent < q[1].id
                BY <1>4, <1>7, <4>1 DEF Proved!QueueOK
            <4>3. seen \in Int
                BY <1>2, <1>6
            <4> HIDE DEF seen
            <4>4. Sent < seen + 1
                BY <4>2
            <4>5. QED
                BY <1>3, <4>3, <4>4
        <3>3. QED
            BY <3>1, <3>2
    <2>3. ~(seen > Sent)
        <3> SUFFICES ASSUME seen > Sent PROVE FALSE
            OBVIOUS
        <3> DEFINE k == Sent + 1 - published + Len(recall)
        <3>1. k \in 1..Len(recall) /\ published - Len(recall) + k = Sent + 1
            BY <1>2, <1>3, <1>5, <1>6, <2>1
        <3>2. recall[k].id = Sent + 1
            BY <1>5, <3>1
        <3>3. Sent + 1 \in Proved!Ids(q)
            <4> HIDE DEF k
            <4>1. Sent + 1 > Sent
                BY <1>3
            <4>2. QED
                BY <1>4, <3>1, <3>2, <4>1
        <3>4. PICK m \in 1..Len(q) : q[m].id = Sent + 1
            BY <3>3 DEF Proved!Ids
        <3>5. q[m].id = seen + m
            BY <1>4
        <3> HIDE DEF seen
        <3>6. seen + m = Sent + 1
            BY <3>4, <3>5
        <3>7. QED
            BY <1>3, <1>6, <2>2, <3>6
    <2>4. QED
        BY <1>3, <2>2, <2>3
<1>9. MetricsState'
    <2>1. queue' \in [{Dashboard} -> Seq(Proved!Event) \union {NoQueue}]
        BY <1>1, <1>4 DEF MetricsInv, MetricsState
    <2>2. gap' \in [Interval -> BOOLEAN]
        BY <1>1 DEF MetricsInv, MetricsState
    <2>3. stream' \in Stream /\ handler' \in Handler
        BY <1>1, <1>2 DEF Stream, Handler, NewHandler
    <2>4. QED
        BY <1>1, <2>1, <2>2, <2>3 DEF MetricsInv, MetricsState
<1>10. stream'.state = "streaming" /\ stream'.interval = i
    BY <1>1, <1>2 DEF Stream
<1>11. StreamInv'
    <2>1. Shown' = Shown
        BY <1>1, <1>10 DEF Shown
    <2>2. handler' = NewHandler /\ handler'.currentBatch = 0
        BY <1>1 DEF NewHandler
    <2>3. /\ Sent = 0 => Shown = << >>
          /\ Sent # 0 => Shown # << >> /\ Shown[Len(Shown)].id = Sent
        BY <1>1 DEF MetricsInv, StreamInv
    <2>4. NewHandler' = NewHandler
        BY DEF NewHandler
    <2>5. QED
        BY <1>3, <1>6, <1>10, <2>1, <2>2, <2>3, <2>4 DEF StreamInv
<1>12. QueueInv'
    <2>1. ASSUME gap'[i] = FALSE
          PROVE  NothingLost(Queued, handler, Sent)'
        <3>1. handler'.currentBatch = 0
            BY <1>1 DEF NewHandler
        <3>2. QED
            BY <1>1, <1>3, <1>4, <1>6, <1>8, <2>1, <3>1 DEF NothingLost
    <2>2. QED
        BY <1>1, <1>3, <1>6, <1>7, <1>10, <2>1 DEF QueueInv
<1>13. ListsInv'
    <2> SUFFICES ASSUME NEW k \in Interval, gap'[k] = FALSE
                 PROVE  gap[k] = FALSE
        BY <1>1 DEF MetricsInv, ListsInv
    <2>1. k # i => gap'[k] = gap[k]
        BY <1>1 DEF MetricsInv, MetricsState
    <2>2. gap'[i] = (gap[i] \/ (Sent # 0 /\ published - Len(recall) > Sent))
        BY <1>1, <1>2 DEF MetricsInv, MetricsState
    <2>3. QED
        BY Zenon, <1>2, <2>1, <2>2
<1>14. SamplesInOrder' /\ Proved!HistoryIsNewest'
    BY <1>1 DEF MetricsInv, SamplesInOrder, Proved!HistoryIsNewest
<1>15. QED
    BY <1>9, <1>11, <1>12, <1>13, <1>14 DEF MetricsInv

\* Without a connection there is nothing to keep but the lists and the cursor.
LEMMA DisconnectedMetrics ==
    ASSUME MetricsInv, UNCHANGED <<times, published, recent>>,
           Queued' = NoQueue, handler' = NewHandler, stream' \in Stream,
           stream'.state # "streaming", queue' \in [{Dashboard} -> {NoQueue}],
           cursor' \in [{Dashboard} -> Nat],
           \/ UNCHANGED <<lists, gap>>
           \/ \E k \in Interval : /\ lists' = [lists EXCEPT ![k] = << >>]
                                  /\ gap' = [gap EXCEPT ![k] = FALSE],
           Sent' = 0 => stream'.state = "idle" \/ Shown' = << >>,
           Sent' # 0 => /\ stream'.state # "idle" /\ Shown' # << >>
                        /\ Shown'[Len(Shown')].id = Sent'
    PROVE  MetricsInv'
<1>1. MetricsState'
    <2>1. handler' \in Handler
        BY DEF Handler, NewHandler
    <2>2. lists' \in [Interval -> Seq(Proved!Event)] /\ gap' \in [Interval -> BOOLEAN]
        <3>1. << >> \in Seq(Proved!Event)
            OBVIOUS
        <3>2. lists \in [Interval -> Seq(Proved!Event)] /\ gap \in [Interval -> BOOLEAN]
            BY DEF MetricsInv, MetricsState
        <3> DEFINE Some == Seq(Proved!Event)
        <3> HIDE DEF Some
        <3>3. << >> \in Some /\ lists \in [Interval -> Some]
            BY <3>1, <3>2 DEF Some
        <3>4. lists' \in [Interval -> Some] /\ gap' \in [Interval -> BOOLEAN]
            BY <3>2, <3>3
        <3>5. QED
            BY <3>4 DEF Some
    <2>3. QED
        BY <2>1, <2>2 DEF MetricsInv, MetricsState
<1>2. SamplesInOrder' /\ Proved!HistoryIsNewest'
    BY DEF MetricsInv, SamplesInOrder, Proved!HistoryIsNewest
<1>3. StreamInv'
    <2>1. handler'.currentBatch = 0 /\ NewHandler' = NewHandler
        BY DEF NewHandler
    <2>2. QED
        BY <2>1 DEF StreamInv
<1>4. QueueInv'
    BY DEF QueueInv
<1>5. ListsInv'
    <2>1. CASE UNCHANGED <<lists, gap>>
        BY <2>1 DEF MetricsInv, ListsInv
    <2>2. CASE \E k \in Interval : /\ lists' = [lists EXCEPT ![k] = << >>]
                                   /\ gap' = [gap EXCEPT ![k] = FALSE]
        <3>1. PICK k \in Interval : /\ lists' = [lists EXCEPT ![k] = << >>]
                                    /\ gap' = [gap EXCEPT ![k] = FALSE]
            BY <2>2
        <3>2. InOrder(<< >>, published) /\ Whole(<< >>)
            BY DEF InOrder, Whole
        <3>3. /\ lists'[k] = << >>
              /\ \A j \in Interval : j # k => lists'[j] = lists[j] /\ gap'[j] = gap[j]
            BY <3>1 DEF MetricsInv, MetricsState
        <3>4. QED
            BY <3>2, <3>3 DEF MetricsInv, ListsInv
    <2>3. QED
        BY <2>1, <2>2
<1>6. QED
    BY <1>1, <1>2, <1>3, <1>4, <1>5 DEF MetricsInv

\* The steps that end a connection or begin a list.
LEMMA BrowserKeepsMetrics ==
    ASSUME MetricsInv,
           \/ ConnectionLost \/ StreamRefused \/ LeaveDashboard \/ ReturnToDashboard
           \/ \E i \in Interval : ChooseInterval(i)
    PROVE  MetricsInv'
<1>0. /\ stream \in Stream /\ stream.interval \in Interval
      /\ queue \in [{Dashboard} -> Seq(Proved!Event) \union {NoQueue}]
      /\ cursor \in [{Dashboard} -> Nat] /\ lists \in [Interval -> Seq(Proved!Event)]
    BY DEF MetricsInv, MetricsState, Stream
<1>1. CASE ConnectionLost
    <2>1. /\ stream.state = "streaming" /\ handler' = NewHandler
          /\ queue' = [queue EXCEPT ![Dashboard] = NoQueue]
          /\ stream' = [stream EXCEPT !.state = "connecting"]
          /\ UNCHANGED <<times, published, recent, cursor, lists, gap>>
        BY <1>1 DEF ConnectionLost, Broker!Disconnect
    <2>2. /\ Queued' = NoQueue /\ queue' \in [{Dashboard} -> {NoQueue}]
          /\ stream' \in Stream /\ stream'.state = "connecting"
          /\ stream'.interval = stream.interval
        BY <1>0, <2>1 DEF Queued, Stream
    <2>3. Shown' = Shown /\ Sent' = Sent
        BY <2>1, <2>2 DEF Shown, Sent
    <2>4. /\ Sent = 0 => Shown = << >>
          /\ Sent # 0 => Shown # << >> /\ Shown[Len(Shown)].id = Sent
        BY <2>1 DEF MetricsInv, StreamInv
    <2>5. QED
        BY <1>0, <2>1, <2>2, <2>3, <2>4, DisconnectedMetrics
<1>2. ASSUME Abort
      PROVE  /\ Queued' = NoQueue /\ queue' \in [{Dashboard} -> {NoQueue}]
             /\ handler' = NewHandler /\ cursor' \in [{Dashboard} -> Nat] /\ Sent' = 0
    BY <1>0, <1>2 DEF Abort, Queued, Sent
<1>3. ASSUME NEW i \in Interval, BeginStream(i)
      PROVE  /\ stream' \in Stream /\ stream'.state = "connecting" /\ Shown' = << >>
             /\ lists' = [lists EXCEPT ![i] = << >>]
             /\ gap' = [gap EXCEPT ![i] = FALSE]
    BY <1>0, <1>3 DEF BeginStream, Stream, Shown
<1>4. [stream EXCEPT !.state = "idle"] \in Stream
      /\ [stream EXCEPT !.state = "idle"].state = "idle"
    BY <1>0 DEF Stream
<1>5. CASE StreamRefused
    <2>1. Abort /\ UNCHANGED <<times, published, recent>>
        BY <1>5 DEF StreamRefused
    <2>2. CASE BeginStream(stream.interval)
        BY <1>0, <1>2, <1>3, <2>1, <2>2, DisconnectedMetrics
    <2>3. CASE stream' = [stream EXCEPT !.state = "idle"] /\ UNCHANGED <<lists, gap>>
        BY <1>2, <1>4, <2>1, <2>3, DisconnectedMetrics
    <2>4. QED
        BY <1>5, <2>2, <2>3 DEF StreamRefused
<1>6. CASE LeaveDashboard
    BY <1>2, <1>4, <1>6, DisconnectedMetrics DEF LeaveDashboard
<1>7. CASE ReturnToDashboard
    <2>1. /\ stream.state = "idle" /\ BeginStream(stream.interval)
          /\ UNCHANGED <<times, published, recent, queue, cursor, handler>>
        BY <1>7 DEF ReturnToDashboard
    <2>2. Queued = NoQueue /\ handler = NewHandler /\ Sent = 0
        BY <2>1 DEF MetricsInv, StreamInv
    <2>3. Queued' = NoQueue /\ queue' \in [{Dashboard} -> {NoQueue}] /\ Sent' = 0
        BY <1>0, <2>1, <2>2 DEF Queued, Sent
    <2>4. QED
        BY <1>0, <1>3, <2>1, <2>2, <2>3, DisconnectedMetrics
<1>8. CASE \E i \in Interval : ChooseInterval(i)
    <2>1. PICK i \in Interval : ChooseInterval(i)
        BY <1>8
    <2>2. Abort /\ UNCHANGED <<times, published, recent>>
        BY <2>1 DEF ChooseInterval
    <2>3. CASE BeginStream(i)
        BY <1>2, <1>3, <2>2, <2>3, DisconnectedMetrics
    <2>4. CASE stream' = [interval |-> i, state |-> "idle"] /\ UNCHANGED <<lists, gap>>
        <3>1. stream' \in Stream /\ stream'.state = "idle"
            BY <2>4 DEF Stream
        <3>2. QED
            BY <1>2, <2>2, <2>4, <3>1, DisconnectedMetrics
    <2>5. QED
        BY <2>1, <2>3, <2>4 DEF ChooseInterval
<1>9. QED
    BY <1>1, <1>5, <1>6, <1>7, <1>8

LEMMA MetricsStep == MetricsInv /\ [MetricsNext]_metricsVars => MetricsInv'
<1> SUFFICES ASSUME MetricsInv, [MetricsNext]_metricsVars PROVE MetricsInv'
    OBVIOUS
<1>1. CASE UNCHANGED metricsVars
    BY <1>1 DEF metricsVars, MetricsInv, MetricsState, SamplesInOrder,
       Proved!HistoryIsNewest, StreamInv, QueueInv, ListsInv, Queued, Sent, Shown,
       NothingLost, NewHandler, SampleOf
<1>2. QED
    BY <1>1, TickKeepsMetrics, PublishKeepsMetrics, ForwardKeepsMetrics,
       ConnectKeepsMetrics, BrowserKeepsMetrics DEF MetricsNext

\* The inductive invariant holds for every number of families and samples, any
\* period and intervals, and every size of channel, history and list.
THEOREM MetricsInvariance == MetricsSpec => []MetricsInv
    BY MetricsInitially, MetricsStep, PTL DEF MetricsSpec

\* What the gauges show are whole samples in order, at their pace, however
\* connections break, intervals change, channels fill and the history forgets.
THEOREM SamplesAreShownWhole == MetricsSpec => []SnapshotsHold
<1>1. MetricsInv => SnapshotsHold
    <2> SUFFICES ASSUME MetricsInv PROVE SnapshotsHold
        OBVIOUS
    <2>1. stream.interval \in Interval /\ Shown \in Seq(Proved!Event)
        BY DEF MetricsInv, MetricsState, Stream, Shown
    <2>2. /\ InOrder(Shown, published)
          /\ gap[stream.interval] = FALSE => Whole(Shown)
        BY <2>1 DEF MetricsInv, ListsInv, Shown
    <2>3. ListInOrder
        BY <2>2 DEF ListInOrder, InOrder
    <2>4. SnapshotsAreWhole
        <3> SUFFICES ASSUME ~gap[stream.interval],
                            NEW s \in {SampleOf(Shown[j].id) : j \in 1..Len(Shown)},
                            s # SampleOf(Shown[1].id), s # SampleOf(Shown[Len(Shown)].id),
                            NEW n \in 1..Families
                     PROVE  \E k \in 1..Len(Shown) : Shown[k].id = (s - 1) * Families + n
            BY Zenon DEF SnapshotsAreWhole
        <3>1. PICK j \in 1..Len(Shown) : s = SampleOf(Shown[j].id)
            OBVIOUS
        <3>2. published \in Nat /\ gap[stream.interval] \in BOOLEAN
            BY <2>1 DEF MetricsInv, MetricsState
        <3>3. Whole(Shown)
            BY Zenon, <2>2, <3>2
        <3>4. QED
            BY <2>1, <2>2, <3>1, <3>2, <3>3, WholeLists
    <2>5. WindowsKeepPace
        BY DEF WindowsKeepPace, MetricsInv, StreamInv
    <2>6. QED
        BY <2>3, <2>4, <2>5 DEF SnapshotsHold
<1>2. QED
    BY MetricsInvariance, <1>1, PTL

-----------------------------------------------------------------------------
(* MetricsStream: the types. *)

\* The samples are counted, and a list is never longer than its limit.
MetricsBounded ==
    /\ Len(times) <= MaxSamples /\ \A i \in Interval : Len(lists[i]) <= Limit
    /\ troubles \in 0..MaxTroubles

MetricsTypes == MetricsInv /\ MetricsBounded

LEMMA MetricsTypesInitially == MetricsInit => MetricsTypes
<1> SUFFICES ASSUME MetricsInit PROVE MetricsTypes
    OBVIOUS
<1>1. MaxSamples \in Nat /\ Limit \in Nat /\ MaxTroubles \in Nat
    BY MetricsAssumption, BrokerAssumption DEF MetricsAssumption, BrokerAssumption
<1>2. MetricsBounded
    BY <1>1 DEF MetricsInit, MetricsBounded
<1>3. QED
    BY <1>2, MetricsInitially DEF MetricsTypes

\* A list that has an event more is not too long.
LEMMA ReducedFits ==
    ASSUME NEW list \in Seq(Proved!Event), NEW event \in Proved!Event
    PROVE  Len(Reduced(list, event)) <= Limit
<1>1. PICK m \in Nat : m = Limit - 1
    BY MetricsAssumption DEF MetricsAssumption
<1>2. /\ Broker!Trim(list, m) \in Seq(Proved!Event)
      /\ Len(Broker!Trim(list, m)) = IF Len(list) > m THEN m ELSE Len(list)
    BY BrokerIsProved, Proved!TrimProperties
<1>3. PICK n \in Nat : n = Len(Broker!Trim(list, m)) /\ n <= m
    BY <1>2
<1>4. Len(Append(Broker!Trim(list, m), event)) = n + 1
    BY <1>2, <1>3
<1>5. Len(Reduced(list, event)) = n + 1
    BY <1>1, <1>4 DEF Reduced
<1>6. QED
    BY <1>1, <1>3, <1>5, MetricsAssumption DEF MetricsAssumption

LEMMA MetricsStayBounded ==
    ASSUME MetricsInv, MetricsBounded, MetricsNext
    PROVE  MetricsBounded'
<1>0. /\ times \in Seq(Nat) /\ lists \in [Interval -> Seq(Proved!Event)]
      /\ queue \in [{Dashboard} -> Seq(Proved!Event) \union {NoQueue}]
      /\ stream.interval \in Interval
    BY DEF MetricsInv, MetricsState, Stream
<1>1. MaxSamples \in Nat /\ Limit \in Nat /\ MaxTroubles \in Nat
    BY MetricsAssumption, BrokerAssumption DEF MetricsAssumption, BrokerAssumption
<1>2. ASSUME Trouble \/ UNCHANGED troubles
      PROVE  troubles' \in 0..MaxTroubles
    BY <1>1, <1>2 DEF Trouble, MetricsBounded
<1>3. CASE Tick
    <2>1. PICK n \in Nat : n = Len(times) /\ n < MaxSamples
        BY <1>0, <1>3 DEF Tick
    <2>2. PICK t : times' = Append(times, t)
        BY <1>3 DEF Tick
    <2>3. Len(times') = n + 1
        BY <1>0, <2>1, <2>2
    <2>4. n + 1 <= MaxSamples
        BY ONLY <1>1, <2>1, n \in Nat
    <2>5. UNCHANGED <<lists, troubles>>
        BY <1>3 DEF Tick
    <2>6. QED
        BY <2>3, <2>4, <2>5 DEF MetricsBounded
<1>4. CASE PublishSample \/ Connect \/ ConnectionLost \/ LeaveDashboard
    <2>1. UNCHANGED <<times, lists>> /\ (Trouble \/ UNCHANGED troubles)
        BY <1>4 DEF PublishSample, Connect, ConnectionLost, LeaveDashboard
    <2>2. QED
        BY <1>2, <2>1 DEF MetricsBounded
<1>5. CASE ForwardBatch
    <2> DEFINE e == Head(queue[Dashboard])
    <2>1. UNCHANGED <<times, troubles>> /\ e \in Proved!Event
        BY <1>0, <1>5 DEF ForwardBatch
    <2>2. \/ UNCHANGED lists
          \/ lists' = [lists EXCEPT ![stream.interval] = Reduced(lists[stream.interval], e)]
        BY <1>5 DEF ForwardBatch
    <2> HIDE DEF e
    <2>3. \A i \in Interval : Len(lists'[i]) <= Limit
        BY <1>0, <2>1, <2>2, ReducedFits DEF MetricsBounded
    <2>4. QED
        BY <2>1, <2>3 DEF MetricsBounded
<1>6. CASE StreamRefused \/ ReturnToDashboard \/ \E i \in Interval : ChooseInterval(i)
    <2>1. UNCHANGED times /\ (Trouble \/ UNCHANGED troubles)
        BY <1>6 DEF StreamRefused, ReturnToDashboard, ChooseInterval
    <2>2. \/ UNCHANGED lists
          \/ \E i \in Interval : lists' = [lists EXCEPT ![i] = << >>]
        BY <1>0, <1>6 DEF StreamRefused, ReturnToDashboard, ChooseInterval, BeginStream
    <2>3. Len(<< >>) = 0 /\ 0 <= Limit
        BY <1>1
    <2>4. \A j \in Interval : Len(lists'[j]) <= Limit
        <3>1. TAKE j \in Interval
        <3>2. lists'[j] = lists[j] \/ lists'[j] = << >>
            BY <1>0, <2>2
        <3>3. QED
            BY <2>3, <3>2 DEF MetricsBounded
    <2>5. QED
        BY <1>2, <2>1, <2>4 DEF MetricsBounded
<1>7. QED
    BY <1>3, <1>4, <1>5, <1>6 DEF MetricsNext

LEMMA MetricsTypesStep == MetricsTypes /\ [MetricsNext]_metricsVars => MetricsTypes'
<1> SUFFICES ASSUME MetricsTypes, [MetricsNext]_metricsVars PROVE MetricsTypes'
    OBVIOUS
<1>1. MetricsInv'
    BY MetricsStep DEF MetricsTypes
<1>2. CASE MetricsNext
    BY <1>1, <1>2, MetricsStayBounded DEF MetricsTypes
<1>3. CASE UNCHANGED metricsVars
    BY <1>1, <1>3 DEF MetricsTypes, MetricsBounded, metricsVars
<1>4. QED
    BY <1>2, <1>3

\* The cursor is that of an event published, and a connection has a channel.
LEMMA MetricsTyped == MetricsTypes => MetricsTypeOK
<1> SUFFICES ASSUME MetricsTypes PROVE MetricsTypeOK
    OBVIOUS
<1>1. /\ published \in Nat /\ Len(times) \in Nat /\ stream \in Stream
      /\ published <= Len(times) * Families /\ Len(times) <= MaxSamples
    BY DEF MetricsTypes, MetricsBounded, MetricsInv, MetricsState, SamplesInOrder
<1>2. MaxSamples \in Nat /\ Families \in Nat
    BY MetricsAssumption, BrokerAssumption DEF MetricsAssumption, BrokerAssumption
<1>3. published <= MaxSamples * Families
    <2>1. PICK n \in Nat : n = Len(times)
        BY <1>1
    <2>2. PICK m \in Nat : n + m = MaxSamples
        <3>1. MaxSamples - n \in Nat /\ n + (MaxSamples - n) = MaxSamples
            BY <1>1, <1>2, <2>1
        <3>2. QED
            BY <3>1
    <2>3. n * Families + m * Families = MaxSamples * Families
        BY <1>2, <2>2
    <2>4. n * Families \in Nat /\ m * Families \in Nat
        BY <1>2
    <2>5. QED
        BY <1>1, <2>1, <2>3, <2>4
<1>4. MaxSamples * Families \in Nat
    BY <1>2
<1>5. Sent \in Nat /\ Sent <= published
    BY SentIsPublished DEF MetricsTypes
<1>6. (stream.state = "streaming") = (queue[Dashboard] # NoQueue)
    BY DEF MetricsTypes, MetricsInv, StreamInv, Queued
<1>7. QED
    BY <1>1, <1>3, <1>4, <1>5, <1>6
       DEF MetricsTypes, MetricsBounded, MetricsTypeOK, Stream, Sent

-----------------------------------------------------------------------------
(* The pages, as their run composes them. *)

LEMMA ReviewsTyped == ReviewsInv => ReviewsTypeOK
BY DEF ReviewsInv, ReviewsState, ServerSession, ReviewsTypeOK, Snapshot, SessionStatus, Form,
   Login, Linking

\* Each part keeps its types while the others stay as they begin.
THEOREM PagesAreTyped == PagesSpec => []PagesTypeOK
<1> DEFINE Inv == /\ ListingInv /\ TilesInv /\ ReviewsInv
                  /\ OnboardingInv /\ EnrollmentTypes /\ MetricsTypes /\ IInv
<1>1. PagesInit => Inv
    BY ListingInitially, TilesInitially, ReviewsInitially,
       OnboardingInitially, EnrollmentTypesInitially, MetricsTypesInitially, Initially
       DEF PagesInit
<1>2. Inv /\ [PagesNext]_pagesVars => Inv'
    <2> SUFFICES ASSUME Inv, [PagesNext]_pagesVars PROVE Inv'
        OBVIOUS
    <2>1. /\ [ListingNext]_listingVars /\ [TilesNext]_tilesVars
          /\ [ReviewsNext]_reviewsVars /\ [OnboardingNext]_onboardingVars
          /\ [EnrollmentNext]_enrollmentVars /\ [MetricsNext]_metricsVars /\ [Next]_vars
        BY DEF PagesNext, pagesVars
    <2>2. OnboardingInv'
        BY <2>1, OnboardingStep
    <2>3. ListingInv' /\ TilesInv' /\ ReviewsInv'
        BY <2>1, ListingStep, TilesStep, ReviewsStep
    <2>4. EnrollmentTypes' /\ MetricsTypes' /\ IInv'
        BY <2>1, EnrollmentTypesStep, MetricsTypesStep, BrokerStep
    <2>5. QED
        BY <2>2, <2>3, <2>4
<1>3. Inv => PagesTypeOK
    BY ListingTyped, TilesTyped, ReviewsTyped, OnboardingTyped, MetricsTyped,
       EnrollmentTyped DEF PagesTypeOK, IInv
<1>4. QED
    BY <1>1, <1>2, <1>3, PTL DEF PagesSpec

=============================================================================
