------------------------------ MODULE Reviews ------------------------------
(***************************************************************************)
(* Signing in to publish a review.  The server runs one device flow at a   *)
(* time, in memory and for everybody (internal/store/oauth.go): a poller   *)
(* asks the provider until it has an answer about the flow's code, and its *)
(* finding counts only while its flow is the current one.  The page        *)
(* (ApplicationInfoColumns) polls that session while it is pending, keeps  *)
(* the connection in the browser, and publishes with whatever the server's *)
(* session then is.  The settings (ConnectionsSettings) connect and        *)
(* disconnect through the same session, with a polling of their own.       *)
(*                                                                         *)
(* Abstractions.  One provider, GitHub or Google, and one application;     *)
(* editing a review is left out; a mutation and its answer are one step,   *)
(* a publication is asked for, served and answered; serving it, from the   *)
(* reading of the session to the post, is one step, and its calls may fail *)
(* with or without the server's token.  The name of this GlassStack user   *)
(* is nobody's at the provider.  Another browser is the action             *)
(* OtherBrowser; what it publishes is left out.                            *)
(***************************************************************************)
EXTENDS Integers, Sequences

CONSTANTS
    Reviewer,     \* accounts of the provider
    NoReviewer,
    LocalUser,    \* the GlassStack user of the page: fallbackAuthor
    MaxFlows,     \* bound: device flows begun
    MaxUpsets     \* bound: failures, restarts, other browsers, remounts

ASSUME ReviewsAssumption ==
    /\ NoReviewer \notin Reviewer /\ LocalUser \notin Reviewer \union {NoReviewer}
    /\ MaxFlows \in Nat /\ MaxUpsets \in Nat

VARIABLES
    deployment,   \* which provider, and whether the server has GLASS_GITHUB_TOKEN
    reviewSession, \* the server's; flow 0 is none
    pollers,      \* the flows whose poller has not returned
    form,         \* state of ApplicationInfoColumns, with its session query
    connection,   \* the review-connection store
    publishing,   \* createReview under way: what the page showed, what the server did
    posts,        \* published reviews, with (history) whether they are as the page showed
    upsets,
    undisturbed,  \* history: nothing else has used the server's session until now
    linking       \* ConnectionsSettings: shown, the flow of its code, its polling

pageVars == <<form, connection, linking>>
publicationVars == <<publishing, posts>>
reviewsVars == <<deployment, reviewSession, pollers, pageVars, publicationVars, upsets, undisturbed>>

\* A flow that has expired, failed or been denied has "ended".  The account is
\* the one of the session's token, which no page is told.
NoSession == [status |-> "idle", flow |-> 0, login |-> NoReviewer, account |-> NoReviewer]
UnknownSession == [NoSession EXCEPT !.status = "unknown"]
MountedForm == [open |-> FALSE, signedOut |-> FALSE, data |-> UnknownSession, asking |-> FALSE,
                stale |-> FALSE]
NotLinking == [shown |-> FALSE, flow |-> 0, polling |-> "waits"]
NotPublishing == [shown |-> NoReviewer, flow |-> 0, state |-> "no", mine |-> FALSE]

\* A snapshot names the provider unless the server has no session.
backendAuthenticated == form.data.status = "authenticated"
isPending == form.data.status = "pending"
savedConnection ==
    IF ~form.signedOut /\ form.data.status \notin {"unknown", "idle"}
    THEN connection ELSE NoReviewer
isAuthenticated == backendAuthenticated \/ savedConnection # NoReviewer
displayed == IF backendAuthenticated THEN form.data.login ELSE savedConnection

ReviewsInit ==
    /\ deployment \in [google : BOOLEAN, token : BOOLEAN]
    /\ reviewSession = NoSession /\ pollers = {}
    /\ form = MountedForm /\ connection = NoReviewer /\ linking = NotLinking
    /\ publishing = NotPublishing /\ posts = {}
    /\ upsets = 0 /\ undisturbed = TRUE

-----------------------------------------------------------------------------
(* The server. *)

\* cancelActiveSessionLocked, then a new flow; without an answer of the
\* provider there is no session left.
NewFlow == [NoSession EXCEPT !.status = "pending", !.flow = reviewSession.flow + 1]
CancelledSession == [NoSession EXCEPT !.flow = reviewSession.flow]

\* Mutant: any poller is heard.
AnyFlow(f) == reviewSession.status # "idle"

\* mutateReviewSession: only the poller of the current flow is heard.
CurrentFlow(f) == reviewSession.flow = f /\ reviewSession.status # "idle"

\* The provider has answered.  Without a token in the answer the session is
\* over, though the code may only not have been entered yet; with the token of
\* whoever entered it the session is authenticated, and without a name if the
\* provider does not tell it.
PollerAnswered ==
    /\ \E f \in pollers :
          /\ pollers' = pollers \ {f}
          /\ \/ ~CurrentFlow(f) /\ reviewSession' = reviewSession
             \/ CurrentFlow(f) /\ reviewSession' = [reviewSession EXCEPT !.status = "ended"]
             \/ /\ CurrentFlow(f)
                /\ \E r \in Reviewer : \E name \in {r, NoReviewer} :
                      reviewSession' = [reviewSession EXCEPT !.status = "authenticated",
                                            !.login = name, !.account = r]
    /\ UNCHANGED <<pageVars, publicationVars, upsets, undisturbed>>

\* A poller that was cancelled, or whose twenty minutes are over: in the
\* middle of a request it leaves the session pending.
PollerEnds ==
    /\ \E f \in pollers :
          /\ pollers' = pollers \ {f}
          /\ \/ reviewSession' = reviewSession
             \/ CurrentFlow(f) /\ reviewSession.status = "pending"
                /\ reviewSession' = [reviewSession EXCEPT !.status = "ended"]
    /\ UNCHANGED <<pageVars, publicationVars, upsets, undisturbed>>

RestartServer ==
    /\ upsets < MaxUpsets /\ upsets' = upsets + 1
    /\ reviewSession' = CancelledSession /\ pollers' = {}
    /\ undisturbed' = FALSE
    /\ UNCHANGED <<pageVars, publicationVars>>

\* Another browser starts a flow, or cancels the one there is.
OtherBrowser ==
    /\ upsets < MaxUpsets /\ upsets' = upsets + 1
    /\ \/ /\ reviewSession.flow < MaxFlows
          /\ reviewSession' = NewFlow /\ pollers' = pollers \union {NewFlow.flow}
       \/ reviewSession' = CancelledSession /\ pollers' = pollers
    /\ undisturbed' = FALSE
    /\ UNCHANGED <<pageVars, publicationVars>>

-----------------------------------------------------------------------------
(* The form. *)

\* An opened form asks for a session it does not know or that the settings
\* have changed; another may have gone stale.
ToggleForm ==
    /\ ~linking.shown
    /\ LET opens == ~form.open
           needed == form.data = UnknownSession \/ form.stale IN
       \E ask \in {form.asking \/ (opens /\ needed), form.asking \/ opens} :
          form' = [form EXCEPT !.open = opens, !.signedOut = FALSE, !.asking = ask]
    /\ UNCHANGED <<reviewSession, pollers, connection, linking, publicationVars, upsets, undisturbed>>

PollSession ==
    /\ form.open /\ isPending /\ ~form.asking
    /\ form' = [form EXCEPT !.asking = TRUE]
    /\ UNCHANGED <<reviewSession, pollers, connection, linking, publicationVars, upsets, undisturbed>>

\* The effect keeps the connection of a session that has become authenticated
\* with a name.
SessionAnswered ==
    /\ form.asking
    /\ LET new == reviewSession.status = "authenticated" /\ reviewSession.login # NoReviewer
                  /\ ~linking.shown
                  /\ (form.data.status # "authenticated" \/ form.data.login # reviewSession.login) IN
       /\ form' = [form EXCEPT !.asking = FALSE, !.stale = FALSE, !.data = reviewSession,
                               !.signedOut = form.signedOut /\ ~new]
       /\ connection' = IF new THEN reviewSession.login ELSE connection
    /\ UNCHANGED <<reviewSession, pollers, linking, publicationVars, upsets, undisturbed>>

SessionUnanswered ==
    /\ form.asking /\ upsets < MaxUpsets /\ upsets' = upsets + 1
    /\ form' = [form EXCEPT !.asking = FALSE]
    /\ UNCHANGED <<reviewSession, pollers, connection, linking, publicationVars, undisturbed>>

\* The provider's button; the answer invalidates the session query.
StartReviewLogin ==
    /\ form.open /\ ~isAuthenticated /\ ~isPending
    /\ \/ /\ reviewSession.flow < MaxFlows
          /\ reviewSession' = NewFlow /\ pollers' = pollers \union {NewFlow.flow}
          /\ form' = [form EXCEPT !.signedOut = FALSE, !.asking = TRUE]
          /\ UNCHANGED upsets
       \/ /\ upsets < MaxUpsets /\ upsets' = upsets + 1
          /\ reviewSession' \in {reviewSession, CancelledSession} /\ pollers' = pollers
          /\ form' = [form EXCEPT !.signedOut = FALSE]
    /\ undisturbed' = (undisturbed /\ publishing.state = "no")
    /\ UNCHANGED <<connection, linking, publicationVars>>

\* The cancellation can fail, and its answer be lost: then the page goes on
\* taking the session for the server's.
SignOutReviewer ==
    /\ form.open /\ isAuthenticated
    /\ connection' = NoReviewer
    /\ \/ /\ reviewSession' = CancelledSession
          /\ form' = [form EXCEPT !.signedOut = TRUE, !.asking = TRUE, !.stale = TRUE]
          /\ undisturbed' = (undisturbed /\ publishing.state = "no")
          /\ UNCHANGED upsets
       \/ /\ upsets < MaxUpsets /\ upsets' = upsets + 1
          /\ reviewSession' \in {reviewSession, CancelledSession}
          /\ form' = [form EXCEPT !.signedOut = TRUE]
          /\ undisturbed' = (undisturbed /\ reviewSession' = reviewSession)
    /\ UNCHANGED <<pollers, linking, publicationVars>>

\* Publish review, shown signed in as displayed, by a session taken for the
\* server's or (flow 0) only by what the browser has kept.  The page's list of
\* reviews, in which it looks for one of the account's, may be old.
SubmitReview ==
    /\ form.open /\ isAuthenticated /\ publishing.state = "no"
    /\ LET taken == backendAuthenticated /\ ~form.stale IN
       publishing' = [shown |-> displayed, flow |-> IF taken THEN form.data.flow ELSE 0,
                      state |-> "asked", mine |-> TRUE]
    /\ UNCHANGED <<reviewSession, pollers, pageVars, posts, upsets, undisturbed>>

\* reviewerIdentity: the session, once it is authenticated.
identified == reviewSession.status = "authenticated"
identityNamed == identified /\ reviewSession.login # NoReviewer

\* checkDuplicateReview: a review of this account, or one under the name of
\* the GlassStack user, which a Google account is refused for too.
Duplicate(p) ==
    IF p.author = LocalUser THEN deployment.google \/ ~identityNamed
    ELSE identified /\ p.author = reviewSession.login

\* Whose review it becomes: a GitHub session posts with its own token; all
\* others with the server's, under the name of the Google session if it has
\* one, else of the GlassStack user.
postsItself == identified /\ ~deployment.google
Author ==
    IF postsItself THEN reviewSession.account
    ELSE IF identityNamed THEN reviewSession.login ELSE LocalUser

\* The session is the one the page showed, and so is the name, if it showed one.
AsShown ==
    publishing.flow # 0 =>
        /\ identified /\ reviewSession.flow = publishing.flow
        /\ publishing.shown \in {Author, NoReviewer}

\* Refused to a second review of the account, and without the server's token
\* where it takes that.  A failing call refuses too, lets a second review pass
\* when it was the one for the reviews there are, or refuses what is posted.
CreateReview ==
    /\ publishing.state = "asked"
    /\ \E posted \in BOOLEAN, answer \in {"done", "refused"} :
          LET permitted == postsItself \/ deployment.token
              served == permitted /\ \A p \in posts : ~Duplicate(p)
              review == [author |-> Author, asShown |-> AsShown] IN
          /\ posted => permitted
          /\ answer = "done" => posted
          /\ IF posted = served /\ (answer = "done") = served THEN UNCHANGED upsets
             ELSE upsets < MaxUpsets /\ upsets' = upsets + 1
          /\ posts' = IF posted THEN posts \union {review} ELSE posts
          /\ publishing' = [NotPublishing EXCEPT !.state = answer, !.mine = publishing.mine]
    /\ UNCHANGED <<reviewSession, pollers, pageVars, undisturbed>>

ReviewCreated ==
    /\ publishing.state \in {"done", "refused"}
    /\ form' = [form EXCEPT !.open = form.open /\ ~(publishing.mine /\ publishing.state = "done")]
    /\ publishing' = NotPublishing
    /\ UNCHANGED <<reviewSession, pollers, connection, linking, posts, upsets, undisturbed>>

\* Another application's page, the store after the settings, or a reload,
\* which also drops the query.
\* With an authenticated, named session in the cache the effect runs again.
RemountReviews ==
    /\ IF linking.shown THEN UNCHANGED upsets
       ELSE upsets < MaxUpsets /\ upsets' = upsets + 1
    /\ \E d \in {form.data, UnknownSession} :
          /\ form' = [MountedForm EXCEPT !.data = d, !.asking = form.asking /\ d = form.data,
                                         !.stale = form.stale /\ d = form.data]
          /\ connection' = IF d.status = "authenticated" /\ d.login # NoReviewer THEN d.login
                           ELSE connection
    /\ publishing' = [publishing EXCEPT !.mine = FALSE] /\ linking' = NotLinking
    /\ UNCHANGED <<reviewSession, pollers, posts, undisturbed>>

-----------------------------------------------------------------------------
(* ConnectionsSettings. *)

OpenConnections ==
    /\ ~linking.shown /\ upsets < MaxUpsets /\ upsets' = upsets + 1
    /\ form' = [form EXCEPT !.open = FALSE, !.signedOut = FALSE]
    /\ publishing' = [publishing EXCEPT !.mine = FALSE]
    /\ linking' = [NotLinking EXCEPT !.shown = TRUE]
    /\ UNCHANGED <<reviewSession, pollers, connection, posts, undisturbed>>

\* startMutation, of a provider without a connection.
ConnectProvider ==
    /\ linking.shown /\ linking.flow = 0 /\ connection = NoReviewer
    /\ \/ /\ reviewSession.flow < MaxFlows
          /\ reviewSession' = NewFlow /\ pollers' = pollers \union {NewFlow.flow}
          /\ linking' = [linking EXCEPT !.flow = NewFlow.flow, !.polling = "waits"]
          /\ UNCHANGED upsets
       \/ /\ upsets < MaxUpsets /\ upsets' = upsets + 1
          /\ reviewSession' \in {reviewSession, CancelledSession}
          /\ UNCHANGED <<pollers, linking>>
    /\ undisturbed' = (undisturbed /\ publishing.state = "no" /\ (backendAuthenticated => form.stale))
    /\ UNCHANGED <<form, connection, publicationVars>>

PollConnection ==
    /\ linking.flow # 0 /\ linking.polling = "waits"
    /\ linking' = [linking EXCEPT !.polling = "asks"]
    /\ UNCHANGED <<reviewSession, pollers, form, connection, publicationVars, upsets,
                   undisturbed>>

\* poll: whichever flow the session is of by now.  A session that has been
\* given up, or has no name, is polled for ever, and one failure ends the
\* polling, all with the code on the screen.
ConnectionPolled ==
    /\ linking.polling = "asks"
    /\ \/ /\ IF identityNamed
             THEN /\ linking' = [NotLinking EXCEPT !.shown = TRUE]
                  /\ connection' = reviewSession.login /\ form' = [form EXCEPT !.stale = TRUE]
             ELSE /\ linking' = IF reviewSession.status = "ended"
                                THEN [NotLinking EXCEPT !.shown = TRUE]
                                ELSE [linking EXCEPT !.polling = "waits"]
                  /\ UNCHANGED <<connection, form>>
          /\ UNCHANGED upsets
       \/ /\ upsets < MaxUpsets /\ upsets' = upsets + 1
          /\ linking' = [linking EXCEPT !.polling = "stopped"] /\ UNCHANGED <<connection, form>>
    /\ UNCHANGED <<reviewSession, pollers, publicationVars, undisturbed>>

\* "Cancel": the server's flow goes on.
CancelConnecting ==
    /\ linking.flow # 0 /\ linking' = [NotLinking EXCEPT !.shown = TRUE]
    /\ UNCHANGED <<reviewSession, pollers, form, connection, publicationVars, upsets,
                   undisturbed>>

\* disconnectMutation forgets the connection whether or not the server's
\* session is cancelled; "Disconnect all" does not ask the server.
DisconnectProvider ==
    /\ linking.shown /\ connection # NoReviewer
    /\ connection' = NoReviewer /\ form' = [form EXCEPT !.stale = TRUE]
    /\ reviewSession' \in {reviewSession, CancelledSession}
    /\ undisturbed' = (undisturbed /\ publishing.state = "no")
    /\ UNCHANGED <<pollers, linking, publicationVars, upsets>>

ReviewsNext ==
    /\ UNCHANGED deployment
    /\ \/ PollerAnswered \/ PollerEnds \/ RestartServer \/ OtherBrowser
       \/ ToggleForm \/ PollSession \/ SessionAnswered \/ SessionUnanswered
       \/ StartReviewLogin \/ SignOutReviewer \/ SubmitReview \/ CreateReview \/ ReviewCreated
       \/ RemountReviews
       \/ OpenConnections \/ ConnectProvider \/ PollConnection \/ ConnectionPolled
       \/ CancelConnecting \/ DisconnectProvider

ReviewsSpec == ReviewsInit /\ [][ReviewsNext]_reviewsVars

-----------------------------------------------------------------------------
ReviewsTypeOK ==
    /\ reviewSession.status \in {"idle", "pending", "authenticated", "ended"}
    /\ reviewSession.flow \in 0..MaxFlows /\ pollers \subseteq 1..reviewSession.flow
    /\ reviewSession.login \in {reviewSession.account, NoReviewer}
    /\ form.data.status \in {"unknown", "idle", "pending", "authenticated", "ended"}
    /\ connection \in Reviewer \union {NoReviewer}
    /\ linking.flow \in 0..MaxFlows /\ linking.polling \in {"waits", "asks", "stopped"}
    /\ \A p \in posts : p.author \in Reviewer \union {LocalUser}
    /\ upsets \in 0..MaxUpsets

\* A review is published by the session the page showed, under the name it
\* showed, if it had one to show: through sign-ins given up, late pollers and
\* lost answers, whichever token it is posted with.  It holds as long as
\* nothing else has used the server's one session: a restart, another browser,
\* a cancellation whose answer was lost, a sign-in or sign-out begun before an
\* earlier publication was answered, or a sign-in begun in the settings while
\* the page takes an earlier one for current.  (Shown signed in by what the
\* browser has kept, while a sign-in is pending or before it has asked again
\* after a sign-out or the settings changed the connection, it may not be; and
\* a session without a name publishes under that of its token or of the
\* GlassStack user.)
PublishedAsShown ==
    undisturbed => \A p \in posts : p.asShown

=============================================================================
