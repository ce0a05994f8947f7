-------------------------- MODULE InstallTracking --------------------------
(***************************************************************************)
(* How the browser follows the installer's operations: the store of        *)
(* install operations (one per application, kept across reloads while it   *)
(* runs), the mutations of the store pages and of the dashboard that put   *)
(* operations into it, and InstallOperationsStream, which upserts what the *)
(* event stream says, asks once after a load for what it finds persisted,  *)
(* and drops finished operations 1.2 s after the store's last change.      *)
(*                                                                         *)
(* The server is what AppsInstaller and EventBroker show of it: operations *)
(* of one application may overlap, every operation ends, and a client that *)
(* connects gets the events after its cursor, all of the history without   *)
(* one.  Published is whether the installer has a publisher:               *)
(* backend/internal/app/composer.go:110 composes it without.               *)
(*                                                                         *)
(* Abstractions.  Statuses of a running operation are one; progress and    *)
(* messages are left out; a poll of the installed list is one step.        *)
(***************************************************************************)
EXTENDS Integers, Sequences, FiniteSets, SequencesExt

CONSTANTS
    AppId,
    NoOperation,    \* no operation in the store
    Published,      \* the installer has a publisher
    MaxOperations,  \* bound: requests of the user
    MaxBreaks       \* bound: broken connections, failed lookups, reloads

ASSUME TrackingAssumption ==
    /\ IsFiniteSet(AppId) /\ Published \in BOOLEAN
    /\ MaxOperations \in Nat /\ MaxBreaks \in Nat

VARIABLES
    operations,  \* useInstallOperations: per application an operation or none
    timer,       \* applications the armed timer will drop, {} when none is armed
    requests,    \* mutations under way
    lookups,     \* getInstallOperation under way
    served,      \* the server's operations, an operation's id is its index
    log,         \* events published
    received,    \* events received on this connection, or to resume after
    connected,
    listed,      \* the installed list as last polled
    breaks,
    overtaken    \* history: an older answer has replaced a newer event

trackingVars == <<operations, timer, requests, lookups, served, log, received,
                  connected, listed, breaks, overtaken>>

OperationId == 1..MaxOperations
Kind == {"install", "update", "edit", "remove"}
Ended == {"done", "error"}
Tracked == [id : OperationId, status : {"running"} \union Ended]

ASSUME NoOperationAssumption == NoOperation \notin Tracked

isTerminalOperation(o) == o # NoOperation /\ o.status \in Ended
isRunningOperation(o) == o # NoOperation /\ o.status = "running"
Finished(ops) == {a \in AppId : isTerminalOperation(ops[a])}

\* Mutant: the timer that was armed is not cleared.
UpsertKeepingTimer(a, o) ==
    LET ops == [operations EXCEPT ![a] = o] IN
    operations' = ops /\ timer' = timer \union Finished(ops)

\* A change of the store runs the effect again: its cleanup clears the
\* timer, and a new one is armed when there is something finished.
Upsert(a, o) ==
    LET ops == [operations EXCEPT ![a] = o] IN
    operations' = ops /\ timer' = Finished(ops)

\* What the server says of an application by its last operation.
Instance(a) ==
    LET own == {i \in DOMAIN served : served[i].app = a}
        i == CHOOSE i \in own : \A j \in own : j <= i IN
    CASE own = {} -> "absent"
      [] \E j \in own : served[j].status = "running" -> "busy"
      [] served[i].status = "error" -> "error"
      [] OTHER -> IF served[i].kind = "remove" THEN "absent" ELSE "installed"

TrackingInit ==
    /\ operations = [a \in AppId |-> NoOperation] /\ timer = {}
    /\ requests = <<>> /\ lookups = <<>>
    /\ served = <<>> /\ log = <<>> /\ received = 0 /\ connected = TRUE
    /\ listed = [a \in AppId |-> "absent"]
    /\ breaks = 0
    /\ overtaken = [a \in AppId |-> FALSE]

-----------------------------------------------------------------------------
(* The pages. *)

Busy(a) == isRunningOperation(operations[a])

Mutate(a, k) ==
    /\ Len(served) + Len(requests) < MaxOperations
    /\ requests' = Append(requests, [app |-> a, kind |-> k, id |-> 0, answer |-> "sent"])

\* The buttons of a card and of the detail page.
PressInstall(a) ==
    /\ ~Busy(a) /\ listed[a] # "installed"
    /\ Mutate(a, "install")
    /\ UNCHANGED <<operations, timer, lookups, served, log, received, connected,
                   listed, breaks, overtaken>>

\* Uninstall and the items of the detail page's menu.
PressManage(a) ==
    /\ ~Busy(a) /\ listed[a] = "installed"
    /\ \E k \in {"update", "remove"} : Mutate(a, k)
    /\ UNCHANGED <<operations, timer, lookups, served, log, received, connected,
                   listed, breaks, overtaken>>

\* The menu of a dashboard tile, whatever the tile is doing.
PressUninstallTile(a) ==
    /\ listed[a] # "absent"
    /\ Mutate(a, "remove")
    /\ UNCHANGED <<operations, timer, lookups, served, log, received, connected,
                   listed, breaks, overtaken>>

\* CustomInstallForm, opened over the detail page when the application was
\* not busy and submitted whatever has begun meanwhile.
SubmitForm(a) ==
    /\ \E k \in {"install", "edit"} : Mutate(a, k)
    /\ UNCHANGED <<operations, timer, lookups, served, log, received, connected,
                   listed, breaks, overtaken>>

PollInstalled ==
    /\ listed' = [a \in AppId |-> Instance(a)]
    /\ UNCHANGED <<operations, timer, requests, lookups, served, log, received, connected,
                   breaks, overtaken>>

-----------------------------------------------------------------------------
(* The server. *)

Announced(i, status) == IF Published THEN Append(log, [id |-> i, status |-> status]) ELSE log

\* Only a settled status refuses an installation, only an application that
\* is not there the rest; the other refusals are left to chance.
MayBegin(a, k) == Instance(a) # IF k = "install" THEN "installed" ELSE "absent"

ServeRequest ==
    /\ \E r \in DOMAIN requests :
          /\ requests[r].answer = "sent"
          /\ \/ /\ MayBegin(requests[r].app, requests[r].kind)
                /\ served' = Append(served, [app |-> requests[r].app,
                                             kind |-> requests[r].kind, status |-> "running"])
                /\ log' = Announced(Len(served'), "running")
                /\ requests' = [requests EXCEPT ![r].answer = "accepted",
                                                     ![r].id = Len(served')]
             \/ /\ requests' = [requests EXCEPT ![r].answer = "refused"]
                /\ UNCHANGED <<served, log>>
    /\ UNCHANGED <<operations, timer, lookups, received, connected, listed, breaks,
                   overtaken>>

FinishOperation ==
    /\ \E i \in DOMAIN served, end \in Ended :
          /\ served[i].status = "running"
          /\ served' = [served EXCEPT ![i].status = end]
          /\ log' = Announced(i, end)
    /\ UNCHANGED <<operations, timer, requests, lookups, received, connected, listed,
                   breaks, overtaken>>

-----------------------------------------------------------------------------
(* Answers and events. *)

\* The end of operation i has already come over the stream.
Heard(i) == \E e \in 1..received : log[e].id = i /\ log[e].status \in Ended

\* onSuccess of a mutation; a refusal only sets the mutation's error.
RequestAnswered ==
    /\ \E r \in DOMAIN requests :
          /\ requests[r].answer # "sent"
          /\ requests' = RemoveAt(requests, r)
          /\ IF requests[r].answer = "refused"
             THEN UNCHANGED <<operations, timer, overtaken>>
             ELSE /\ Upsert(requests[r].app, [id |-> requests[r].id, status |-> "running"])
                  /\ overtaken' = [overtaken EXCEPT ![requests[r].app] = Heard(requests[r].id)]
    /\ UNCHANGED <<lookups, served, log, received, connected, listed, breaks>>

StreamEvent ==
    /\ connected /\ received < Len(log)
    /\ LET e == log[received + 1]
           a == served[e.id].app IN
       Upsert(a, e) /\ overtaken' = [overtaken EXCEPT ![a] = FALSE]
    /\ received' = received + 1
    /\ UNCHANGED <<requests, lookups, served, log, connected, listed, breaks>>

\* The body ends or its reading fails: streamInstallOperations connects
\* again with the cursor it has.
StreamEnds ==
    /\ connected /\ breaks < MaxBreaks
    /\ connected' = FALSE /\ breaks' = breaks + 1
    /\ UNCHANGED <<operations, timer, requests, lookups, served, log, received, listed,
                   overtaken>>

\* Mutant: a client that connects gets only what is published from then on.
StreamConnectsLive ==
    /\ ~connected
    /\ connected' = TRUE /\ received' = Len(log)
    /\ UNCHANGED <<operations, timer, requests, lookups, served, log, listed,
                   breaks, overtaken>>

StreamConnects ==
    /\ ~connected
    /\ connected' = TRUE
    /\ UNCHANGED <<operations, timer, requests, lookups, served, log, received, listed,
                   breaks, overtaken>>

\* The server refuses: the effect starts another generator, without cursor.
ConnectRefused ==
    /\ ~connected /\ breaks < MaxBreaks
    /\ received' = 0 /\ breaks' = breaks + 1
    /\ UNCHANGED <<operations, timer, requests, lookups, served, log, connected, listed,
                   overtaken>>

LookupServed ==
    /\ \E l \in DOMAIN lookups :
          /\ lookups[l].status = "sent"
          /\ lookups' = [lookups EXCEPT ![l].status = served[lookups[l].id].status]
    /\ UNCHANGED <<operations, timer, requests, served, log, received, connected, listed,
                   breaks, overtaken>>

LookupAnswered ==
    /\ \E l \in DOMAIN lookups :
          LET o == lookups[l]
              a == served[o.id].app IN
          /\ o.status # "sent"
          /\ lookups' = RemoveAt(lookups, l)
          /\ Upsert(a, o)
          /\ overtaken' = [overtaken EXCEPT ![a] = o.status = "running" /\ Heard(o.id)]
    /\ UNCHANGED <<requests, served, log, received, connected, listed, breaks>>

\* removeOperation(operation.appId), whichever operation is there by now.
LookupFails ==
    /\ breaks < MaxBreaks /\ breaks' = breaks + 1
    /\ \E l \in DOMAIN lookups :
          /\ lookups' = RemoveAt(lookups, l)
          /\ Upsert(served[lookups[l].id].app, NoOperation)
    /\ UNCHANGED <<requests, served, log, received, connected, listed, overtaken>>

TimerFires ==
    /\ timer # {}
    /\ operations' = [a \in AppId |-> IF a \in timer THEN NoOperation ELSE operations[a]]
    /\ timer' = {}
    /\ UNCHANGED <<requests, lookups, served, log, received, connected, listed,
                   breaks, overtaken>>

\* The page is loaded again: keepActive is what the browser has kept, and
\* each operation of it is asked for.
ReloadStore ==
    /\ breaks < MaxBreaks /\ breaks' = breaks + 1
    /\ LET kept == {a \in AppId : Busy(a)} IN
       /\ operations' = [a \in AppId |-> IF a \in kept THEN operations[a] ELSE NoOperation]
       /\ lookups' = SetToSeq({[operations[a] EXCEPT !.status = "sent"] : a \in kept})
    /\ timer' = {} /\ requests' = <<>> /\ received' = 0 /\ connected' = FALSE
    /\ UNCHANGED <<served, log, listed, overtaken>>

TrackingNext ==
    \/ \E a \in AppId : \/ PressInstall(a) \/ PressManage(a) \/ PressUninstallTile(a)
                      \/ SubmitForm(a)
    \/ PollInstalled \/ ServeRequest \/ FinishOperation
    \/ RequestAnswered \/ StreamEvent \/ StreamEnds \/ StreamConnects \/ ConnectRefused
    \/ LookupServed \/ LookupAnswered \/ LookupFails \/ TimerFires \/ ReloadStore

\* Operations end (OperationsSettle of AppsInstaller), requests and lookups
\* are answered, the stream reconnects and the timer runs.
TrackingFairness ==
    /\ WF_trackingVars(FinishOperation) /\ WF_trackingVars(ServeRequest)
    /\ WF_trackingVars(RequestAnswered) /\ WF_trackingVars(StreamEvent)
    /\ WF_trackingVars(StreamConnects) /\ WF_trackingVars(LookupServed)
    /\ WF_trackingVars(LookupAnswered) /\ WF_trackingVars(TimerFires)

TrackingSpec == TrackingInit /\ [][TrackingNext]_trackingVars /\ TrackingFairness

-----------------------------------------------------------------------------
TrackingTypeOK ==
    /\ operations \in [AppId -> Tracked \union {NoOperation}]
    /\ timer \subseteq AppId
    /\ received \in 0..Len(log)
    /\ \A i \in DOMAIN served : served[i].app \in AppId /\ served[i].kind \in Kind
    /\ \A a \in AppId : operations[a] # NoOperation => served[operations[a].id].app = a
    /\ listed \in [AppId -> {"absent", "busy", "installed", "error"}]
    /\ breaks \in 0..MaxBreaks /\ overtaken \in [AppId -> BOOLEAN]

\* A running operation leaves the store only when its lookup fails: neither
\* the timer of an earlier operation of the application, armed before this
\* one was upserted, nor a reload takes it away.
RunningOperationsStay ==
    [][\A a \in AppId : Busy(a) /\ operations'[a] = NoOperation =>
          \E l \in DOMAIN lookups :
              served[lookups[l].id].app = a /\ Len(lookups') < Len(lookups)]_trackingVars

\* "Install progress survives browser reconnect and ends in success or
\* actionable failure" (docs/vault/05-backlog/Stories/US-011 Catalog
\* app plan and install.md:19): an application shown busy does not
\* stay so for ever, through broken connections, refused ones and reloads,
\* unless the answer to its request or lookup came after the news of its end.
OperationsAreFollowed ==
    \A a \in AppId : operations[a] # NoOperation ~> operations[a] = NoOperation \/ overtaken[a]

=============================================================================
