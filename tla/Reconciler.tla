---------------------------- MODULE Reconciler -----------------------------
(***************************************************************************)
(* The reconciler: internal/apps/reconciler.go, fed by the docker engine's *)
(* event stream.  One goroutine (Run) resyncs, follows the stream, resyncs *)
(* on every container event, and after a lost stream waits for its ticker  *)
(* or for one second.                                                      *)
(*                                                                         *)
(* Beside it the docker host changes, and the installer's executors write  *)
(* whole instance rows (their end is all that is modelled here, the rest   *)
(* is AppsInstaller).  A resync is not a transaction: it lists the rows,   *)
(* lists the containers, then updates one row at a time.                   *)
(*                                                                         *)
(* Abstractions.  What runs for an application is one of four situations,  *)
(* of which reconcileRuntime makes three.  Events that are not about       *)
(* containers change nothing.  Time is left out: in "waiting" either the   *)
(* tick or the second may come first.                                      *)
(***************************************************************************)
EXTENDS Integers, FiniteSets

CONSTANTS
    App,
    Prefixed,     \* per application: those whose containers' names begin with "<id>-"
    Nothing,      \* no row; no resync under way
    MaxChanges,   \* bound: changes of the host
    MaxRewrites,  \* bound: rows that executors write or delete
    MaxFaults     \* bound: failing statements, failing engine calls, lost streams

Situation == {"none", "up", "mixed", "down"}
Host == [App -> Situation]
Row == [status: {"installed", "error"},
        runtime: {"", "running", "stopped", "degraded"},
        lastError: BOOLEAN]
Phase == {"start", "dial", "streaming", "waiting"}
Resync == [step: {"containers", "write"}, todo: SUBSET App, seen: Host]

ASSUME NothingIsNoValue == Nothing \notin Row \cup Resync
ASSUME PrefixedIsReflexive ==
    Prefixed \in [App -> SUBSET App] /\ \A a \in App : a \in Prefixed[a]
ASSUME BoundsAreNatural == MaxChanges \in Nat /\ MaxRewrites \in Nat /\ MaxFaults \in Nat

VARIABLES
    host,      \* the containers of each application
    row,       \* app_instances
    phase,     \* where Run is
    resync,    \* the Resync call under way, with its local variables
    pending,   \* container events on the open stream, not yet handled
    unseen,    \* per application: no listing of the host covers its row (history variable)
    changes, rewrites, faults

bounds == <<changes, rewrites, faults>>
vars == <<host, row, phase, resync, pending, unseen, bounds>>

\* reconcileRuntime counts the running containers among those with the prefix.
RuntimeIn(h, a) ==
    LET found == {h[b] : b \in Prefixed[a]} IN
    CASE found \subseteq {"none", "down"} -> "stopped"
      [] found \subseteq {"none", "up"} -> "running"
      [] OTHER -> "degraded"

IsInstalled(a) == row[a] # Nothing /\ row[a].status = "installed"

Fault == faults < MaxFaults /\ faults' = faults + 1 /\ UNCHANGED <<changes, rewrites>>

-----------------------------------------------------------------------------
(* Resync *)

\* What Run does when a resync returns: the first one and the one of the ticker
\* are followed by a new stream; the one of an event goes on with the stream.
Succeed ==
    /\ resync' = Nothing
    /\ phase' = IF phase = "streaming" THEN "streaming" ELSE "dial"
    /\ UNCHANGED <<pending, unseen>>

\* An error only warns, except in a stream: emit returns it and the stream ends,
\* with the events it still held.
GiveUp ==
    /\ resync' = Nothing
    /\ phase' = IF phase = "streaming" THEN "waiting" ELSE "dial"
    /\ pending' = 0
    /\ unseen' = [a \in App |-> TRUE]

\* ListInstances, and the rows whose status is not installed are skipped.
ListInstances ==
    /\ resync = Nothing
    /\ \/ phase \in {"start", "waiting"} /\ pending' = pending
       \/ phase = "streaming" /\ pending > 0 /\ pending' = pending - 1
    /\ resync' = [step |-> "containers", todo |-> {a \in App : IsInstalled(a)}, seen |-> host]
    /\ UNCHANGED <<host, row, phase, unseen, bounds>>

\* engine.List: the snapshot that all the updates of this resync come from.
ListContainers ==
    /\ resync # Nothing /\ resync.step = "containers"
    /\ IF resync.todo = {} THEN Succeed
       ELSE /\ resync' = [resync EXCEPT !.step = "write", !.seen = host]
            /\ unseen' = [a \in App |-> unseen[a] /\ ~(phase = "streaming" /\ a \in resync.todo)]
            /\ UNCHANGED <<phase, pending>>
    /\ UNCHANGED <<host, row, bounds>>

\* Mutant: events that came in the meantime are taken to be covered.
WriteAndDrain(a) ==
    /\ resync # Nothing /\ resync.step = "write" /\ a \in resync.todo
    /\ row[a] # Nothing
    /\ row' = [row EXCEPT ![a].runtime = RuntimeIn(resync.seen, a), ![a].lastError = FALSE]
    /\ resync' = IF resync.todo = {a} THEN Nothing ELSE [resync EXCEPT !.todo = @ \ {a}]
    /\ phase' = IF phase = "streaming" \/ resync.todo # {a} THEN phase ELSE "dial"
    /\ pending' = IF resync.todo = {a} THEN 0 ELSE pending
    /\ UNCHANGED <<host, unseen, bounds>>

\* Mutant: the row is written back as it was listed.
WriteWholeRow(a) ==
    /\ resync # Nothing /\ resync.step = "write" /\ a \in resync.todo
    /\ row' = [row EXCEPT ![a] = [status |-> "installed", lastError |-> FALSE,
                                  runtime |-> RuntimeIn(resync.seen, a)]]
    /\ IF resync.todo = {a} THEN Succeed
       ELSE resync' = [resync EXCEPT !.todo = @ \ {a}] /\ UNCHANGED <<phase, pending, unseen>>
    /\ UNCHANGED <<host, bounds>>

\* UpdateInstanceRuntime: the runtime and, with the empty string Resync passes,
\* last_error of a row that is still there, whatever its status is by now.  A
\* missing row ends the resync, and the rows after it keep what they have.
UpdateInstanceRuntime(a) ==
    /\ resync # Nothing /\ resync.step = "write" /\ a \in resync.todo
    /\ IF row[a] = Nothing THEN GiveUp /\ UNCHANGED row
       ELSE /\ row' = [row EXCEPT ![a].runtime = RuntimeIn(resync.seen, a),
                                  ![a].lastError = FALSE]
            /\ IF resync.todo = {a} THEN Succeed
               ELSE /\ resync' = [resync EXCEPT !.todo = @ \ {a}]
                    /\ UNCHANGED <<phase, pending, unseen>>
    /\ UNCHANGED <<host, bounds>>

\* A statement of the store or the call of the engine fails.
ResyncFails ==
    /\ resync # Nothing \/ phase = "start" \/ (phase = "streaming" /\ pending > 0)
    /\ GiveUp
    /\ Fault
    /\ UNCHANGED <<host, row>>

-----------------------------------------------------------------------------
(* The stream *)

\* The engine sends the events from now on.
OpenStream ==
    /\ phase = "dial"
    /\ phase' = "streaming"
    /\ pending' = 0
    /\ UNCHANGED <<host, row, resync, unseen, bounds>>

\* The daemon cannot be reached, or closes the stream.
LoseStream ==
    /\ phase \in {"dial", "streaming"} /\ resync = Nothing
    /\ phase' = "waiting"
    /\ pending' = 0
    /\ unseen' = [a \in App |-> TRUE]
    /\ Fault
    /\ UNCHANGED <<host, row, resync>>

\* The second passes before the tick: the stream is opened again, without a
\* resync.  (The tick is ListInstances in "waiting".)
Retry ==
    /\ phase = "waiting" /\ resync = Nothing
    /\ phase' = "dial"
    /\ UNCHANGED <<host, row, resync, pending, unseen, bounds>>

-----------------------------------------------------------------------------
(* The docker host and the executors *)

\* Containers start, stop or disappear; an open stream gets an event.
ChangeHost(a, situation) ==
    /\ changes < MaxChanges
    /\ host[a] # situation
    /\ host' = [host EXCEPT ![a] = situation]
    /\ pending' = IF phase = "streaming" THEN pending + 1 ELSE pending
    /\ changes' = changes + 1
    /\ UNCHANGED <<row, phase, resync, unseen, rewrites, faults>>

Rewrite(a, r) ==
    /\ rewrites < MaxRewrites
    /\ row' = [row EXCEPT ![a] = r]
    /\ unseen' = [unseen EXCEPT ![a] = TRUE]
    /\ rewrites' = rewrites + 1
    /\ UNCHANGED <<host, phase, resync, pending, changes, faults>>

\* The end of an install, an update or an edit.
SettleInstance(a) ==
    Rewrite(a, [status |-> "installed", runtime |-> "running", lastError |-> FALSE])

\* failOperation: the row of a failed operation.
FailInstance(a) == Rewrite(a, [status |-> "error", runtime |-> "", lastError |-> TRUE])

\* The end of a remove.
DeleteInstance(a) == row[a] # Nothing /\ Rewrite(a, Nothing)

-----------------------------------------------------------------------------
Init ==
    /\ host = [a \in App |-> "none"]
    /\ row = [a \in App |-> Nothing]
    /\ phase = "start"
    /\ resync = Nothing
    /\ pending = 0
    /\ unseen = [a \in App |-> TRUE]
    /\ changes = 0 /\ rewrites = 0 /\ faults = 0

Reconcile ==
    \/ ListInstances \/ ListContainers \/ OpenStream \/ Retry
    \/ \E a \in App : UpdateInstanceRuntime(a)

Execute(a) == SettleInstance(a) \/ FailInstance(a) \/ DeleteInstance(a)

Next ==
    \/ Reconcile \/ ResyncFails \/ LoseStream
    \/ \E a \in App : Execute(a) \/ \E situation \in Situation : ChangeHost(a, situation)

Spec == Init /\ [][Next]_vars

-----------------------------------------------------------------------------
(* Correctness *)

TypeOK ==
    /\ host \in Host
    /\ row \in [App -> Row \cup {Nothing}]
    /\ phase \in Phase
    /\ resync \in Resync \cup {Nothing}
    /\ pending \in Nat
    /\ unseen \in [App -> BOOLEAN]
    /\ changes \in Nat /\ rewrites \in Nat /\ faults \in Nat

Accurate(a) == IsInstalled(a) => row[a].runtime = RuntimeIn(host, a)

\* One resync per event is enough: once the stream has no event left, the row
\* of an application that was listed since the stream opened, and not rewritten
\* since, is what the host runs, however changes and resyncs overlapped.
AccurateWhenQuiet ==
    phase = "streaming" /\ resync = Nothing /\ pending = 0
    => \A a \in App : unseen[a] \/ Accurate(a)

\* The reconciler never makes a row, deletes one or changes its status: what it
\* observed "is written to runtime_status (never to desired state)"
\* (docs/docker-architecture.md:219-220).
DesiredStateIsTheInstallers ==
    [][rewrites' = rewrites =>
          \A a \in App : /\ row[a] = Nothing <=> row'[a] = Nothing
                         /\ row[a] # Nothing => row'[a].status = row[a].status]_vars

=============================================================================
