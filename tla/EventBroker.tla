---------------------------- MODULE EventBroker ----------------------------
(***************************************************************************)
(* The in-process event broker (internal/events/broker.go) and the SSE     *)
(* handler that forwards the operation events of the application installer *)
(* (OperationEventStream, internal/http/handlers/events.go).               *)
(*                                                                         *)
(* Publish and SubscribeAfter hold the broker's mutex from beginning to    *)
(* end: each is one action.  A subscription is the buffered channel of one *)
(* connected client.  The client remembers the id of the last event it     *)
(* received and sends it as Last-Event-ID when it connects again, as       *)
(* frontend/.../api/installOperationsStream.ts does until an attempt to    *)
(* connect fails: InstallOperationsStream.tsx starts a new stream then,    *)
(* without the id.  The broker lives in memory: a restart of the backend   *)
(* begins again with id 1 and no history.                                  *)
(***************************************************************************)
EXTENDS Integers, Sequences

CONSTANTS
    Client,
    Closed,       \* the client has no subscription
    Buffer,       \* NewBroker's bufferSize: capacity of a subscriber's channel
    HistorySize,  \* NewBroker's historySize
    MaxEvents,    \* bound: events published between two restarts
    MaxRestarts   \* bound: restarts of the backend

\* NewBroker raises a buffer below 1 to 1 and a negative history to 0.
ASSUME BufferIsPositive == Buffer \in Nat \ {0}
ASSUME HistoryIsNatural == HistorySize \in Nat
ASSUME BoundsAreNatural == MaxEvents \in Nat /\ MaxRestarts \in Nat

\* Event types are told apart only by the prefix "glass.apps.".
Event == [id: Nat \ {0}, apps: BOOLEAN]

ASSUME ClosedIsNoChannel == Closed \notin Seq(Event)

VARIABLES
    nextEventID,  \* id of the last event published
    history,
    channel,      \* per client: queued events, or Closed
    lastEventID,  \* per client: what it will send as Last-Event-ID, 0 for none
    received,     \* per client: ids its stream received since the backend started
                  \* (history variable)
    restarts

vars == <<nextEventID, history, channel, lastEventID, received, restarts>>

Newest(s, n) == SubSeq(s, Len(s) - n + 1, Len(s))
Trim(s, n) == IF Len(s) > n THEN Newest(s, n) ELSE s

Ids(s) == {s[i].id : i \in 1..Len(s)}

-----------------------------------------------------------------------------
\* The non-blocking send of Publish: a full channel does not get the event.
Offer(queue, event) == IF Len(queue) < Buffer THEN Append(queue, event) ELSE queue

Remember(event) == Trim(Append(history, event), HistorySize)

Publish(apps) ==
    /\ nextEventID < MaxEvents
    /\ LET event == [id |-> nextEventID + 1, apps |-> apps] IN
        /\ nextEventID' = event.id
        /\ history' = Remember(event)
        /\ channel' = [c \in Client |-> IF channel[c] = Closed THEN Closed
                                        ELSE Offer(channel[c], event)]
    /\ UNCHANGED <<lastEventID, received, restarts>>

\* Mutant: the replay is not trimmed to the channel.
ReplayWhole(after) == SelectSeq(history, LAMBDA event : after = 0 \/ event.id > after)

\* Mutant: the event of the cursor is sent again.
ReplayFrom(after) ==
    SelectSeq(Trim(history, Buffer), LAMBDA event : after = 0 \/ event.id >= after)

\* Mutant: an event too many is taken for received.
ReplayAfterNext(after) ==
    SelectSeq(Trim(history, Buffer), LAMBDA event : after = 0 \/ event.id > after + 1)

\* The events SubscribeAfter sends to the new channel while it holds the mutex:
\* of the newest Buffer ones, those after the cursor.  Ids grow along the
\* history, so that they are what is left after the first few.
Replay(after) ==
    LET recent == Trim(history, Buffer)
        skipped == CHOOSE n \in 0..Len(recent) :
                      \A i \in 1..Len(recent) : i <= n <=> (after # 0 /\ recent[i].id <= after)
    IN  SubSeq(recent, skipped + 1, Len(recent))

Subscribe(c) ==
    /\ channel[c] = Closed
    /\ channel' = [channel EXCEPT ![c] = Replay(lastEventID[c])]
    /\ UNCHANGED <<nextEventID, history, lastEventID, received, restarts>>

\* The handler takes one event, drops it unless it concerns an application,
\* and writes it; the client remembers its id.
Forward(c) ==
    /\ channel[c] # Closed /\ channel[c] # << >>
    /\ LET event == Head(channel[c]) IN
        /\ channel' = [channel EXCEPT ![c] = Tail(channel[c])]
        /\ IF event.apps
           THEN /\ lastEventID' = [lastEventID EXCEPT ![c] = event.id]
                /\ received' = [received EXCEPT ![c] = received[c] \cup {event.id}]
           ELSE UNCHANGED <<lastEventID, received>>
    /\ UNCHANGED <<nextEventID, history, restarts>>

\* The connection ends: what is queued or was written and not read is lost.
Disconnect(c) ==
    /\ channel[c] # Closed
    /\ channel' = [channel EXCEPT ![c] = Closed]
    /\ UNCHANGED <<nextEventID, history, lastEventID, received, restarts>>

\* fetch fails or is refused, so that streamInstallOperations throws, or the page is
\* loaded again: another stream begins, which has no cursor.
StartOver(c) ==
    /\ channel[c] = Closed
    /\ lastEventID' = [lastEventID EXCEPT ![c] = 0]
    /\ received' = [received EXCEPT ![c] = {}]
    /\ UNCHANGED <<nextEventID, history, channel, restarts>>

Restart ==
    /\ restarts < MaxRestarts
    /\ restarts' = restarts + 1
    /\ nextEventID' = 0
    /\ history' = << >>
    /\ channel' = [c \in Client |-> Closed]
    /\ received' = [c \in Client |-> {}]
    /\ UNCHANGED lastEventID

-----------------------------------------------------------------------------
Init ==
    /\ nextEventID = 0
    /\ history = << >>
    /\ channel = [c \in Client |-> Closed]
    /\ lastEventID = [c \in Client |-> 0]
    /\ received = [c \in Client |-> {}]
    /\ restarts = 0

Next == \/ \E apps \in BOOLEAN : Publish(apps)
        \/ \E c \in Client : Subscribe(c) \/ Forward(c) \/ Disconnect(c) \/ StartOver(c)
        \/ Restart

Spec == Init /\ [][Next]_vars

-----------------------------------------------------------------------------
(* Correctness *)

TypeOK ==
    /\ nextEventID \in Nat
    /\ history \in Seq(Event)
    /\ channel \in [Client -> Seq(Event) \cup {Closed}]
    /\ lastEventID \in [Client -> Nat]
    /\ received \in [Client -> SUBSET Nat]
    /\ restarts \in Nat

\* SubscribeAfter sends to the new channel while it holds the mutex: were the
\* replay longer than the channel, the broker and every publisher would stop.
ReplayNeverBlocks == \A c \in Client : channel[c] # Closed => Len(channel[c]) <= Buffer

\* The history is the newest events, without a gap, however many are published.
HistoryIsNewest ==
    /\ Len(history) = IF nextEventID < HistorySize THEN nextEventID ELSE HistorySize
    /\ \A i \in 1..Len(history) : history[i].id = nextEventID - Len(history) + i

\* No stream of a client receives an event twice or after a later one, over any
\* number of reconnections: what is queued is in order and newer than what was
\* received.  A stream that starts over is sent the remembered events again.
DeliveryInOrder ==
    \A c \in Client : channel[c] # Closed =>
        /\ \A i, j \in 1..Len(channel[c]) : i < j => channel[c][i].id < channel[c][j].id
        /\ \A i \in 1..Len(channel[c]) : \A n \in received[c] : n < channel[c][i].id

\* What a client that connects again finds in its channel: every remembered
\* event of an application newer than the ones it received.
Resumes(c) ==
    \A i \in 1..Len(Trim(history, Buffer)) :
        LET event == Trim(history, Buffer)[i] IN
        event.apps /\ (\A n \in received[c] : n < event.id) => event.id \in Ids(channel'[c])

Connects(c) == channel[c] = Closed /\ channel'[c] # Closed

\* A client whose cursor comes from this run of the backend, or that has none,
\* misses nothing the history still holds.
ReconnectResumes ==
    [][\A c \in Client :
          Connects(c) /\ lastEventID[c] \in received[c] \cup {0} => Resumes(c)]_vars

=============================================================================
