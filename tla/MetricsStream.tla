--------------------------- MODULE MetricsStream ---------------------------
(***************************************************************************)
(* The dashboard's live metrics: the sampler (internal/host/metrics.go)    *)
(* publishes one event per family, all with the time of their sample; the  *)
(* broker (EventBroker) queues them for the handler EventStream, which     *)
(* forwards the samples that are an interval apart, whole; the browser     *)
(* (streamEvents, useEvents) reconnects with the id of its last event and  *)
(* keeps the newest events, one list for every interval used.              *)
(*                                                                         *)
(* Abstractions.  The installer has no publisher, so that the broker's     *)
(* events are the sampler's alone: the id of one says which sample and     *)
(* which family it is of.  Payloads are left out.  Writing an event and    *)
(* reading it are one step, and what was written and not read is lost with *)
(* the connection.  Restarts of the backend are in EventBroker.            *)
(***************************************************************************)
EXTENDS Integers, Sequences

CONSTANTS
    Families,    \* how many events a sample has (4)
    Period,      \* between two ticks of the sampler, in units of time
    MaxDelay,    \* what a reading may take
    Interval,    \* what ServicesSettings offers
    NoQueue, QueueSize, Remembered,   \* the broker's Closed, Buffer and HistorySize
    Limit,       \* the length of a list (120)
    MaxSamples, MaxTroubles        \* bounds

ASSUME MetricsAssumption ==
    /\ Families \in Nat \ {0} /\ Period \in Nat /\ MaxDelay \in 0..(Period - 1)
    /\ Interval \subseteq Nat \ {0} /\ Interval # {} /\ Limit \in Nat \ {0}
    /\ MaxTroubles \in Nat

VARIABLES
    times,       \* occurredAt of each sample
    published, recent, queue, cursor,   \* the broker's, for the one client; its Last-Event-ID
    handler,     \* EventStream: lastBatch, currentBatch, forwardBatch; time 0 is none
    stream,      \* the browser: the interval chosen, and its stream
    lists,       \* per interval: the data of its query
    gap,         \* history, per interval: an event was dropped, or fell out of the history
    troubles

metricsVars == <<times, published, recent, queue, cursor, handler, stream, lists, gap, troubles>>

Dashboard == "dashboard"

Broker == INSTANCE EventBroker WITH
    Client <- {Dashboard}, Closed <- NoQueue, Buffer <- QueueSize, HistorySize <- Remembered,
    MaxEvents <- MaxSamples * Families, MaxRestarts <- 0,
    nextEventID <- published, history <- recent, channel <- queue, lastEventID <- cursor,
    received <- [c \in {Dashboard} |-> {}], restarts <- 0

ASSUME BrokerAssumption ==
    /\ QueueSize \in Nat \ {0} /\ Remembered \in Nat /\ MaxSamples \in Nat
    /\ NoQueue \notin Seq(Broker!Event)

SampleOf(id) == (id - 1) \div Families + 1
OccurredAt(event) == times[SampleOf(event.id)]

NewHandler == [lastBatch |-> 0, currentBatch |-> 0, forwardBatch |-> TRUE]

MetricsInit ==
    /\ times = << >> /\ published = 0 /\ recent = << >>
    /\ queue = [c \in {Dashboard} |-> NoQueue] /\ cursor = [c \in {Dashboard} |-> 0]
    /\ handler = NewHandler
    /\ \E i \in Interval : stream = [interval |-> i, state |-> "connecting"]
    /\ lists = [i \in Interval |-> << >>]
    /\ gap = [i \in Interval |-> FALSE] /\ troubles = 0

-----------------------------------------------------------------------------
(* The sampler. *)

\* A tick: the time of a sample is when its first reading is done.
Tick ==
    /\ Len(times) < MaxSamples /\ published = Len(times) * Families
    /\ \E delay \in 0..MaxDelay : times' = Append(times, (Len(times) + 1) * Period + delay)
    /\ UNCHANGED <<published, recent, queue, cursor, handler, stream, lists, gap, troubles>>

\* publishSample: the next family.
PublishSample ==
    /\ published < Len(times) * Families
    /\ Broker!Publish(FALSE)
    /\ gap' = [gap EXCEPT ![stream.interval] =
                   @ \/ (queue[Dashboard] # NoQueue /\ Len(queue[Dashboard]) >= QueueSize)]
    /\ UNCHANGED <<times, handler, stream, lists, troubles>>

-----------------------------------------------------------------------------
(* EventStream. *)

\* Mutant: every event is compared with the last one forwarded.
BatchedEach(h, at, interval) ==
    LET forward == h.lastBatch = 0 \/ at - h.lastBatch >= interval IN
    [lastBatch |-> IF forward THEN at ELSE h.lastBatch, currentBatch |-> at,
     forwardBatch |-> forward]

\* The events of one sample go where its first one goes.
Batched(h, at, interval) ==
    LET forward == h.lastBatch = 0 \/ at - h.lastBatch >= interval IN
    IF at = h.currentBatch THEN h
    ELSE [lastBatch |-> IF forward THEN at ELSE h.lastBatch, currentBatch |-> at,
          forwardBatch |-> forward]

\* streamedQuery's reducer: events.slice(-119) and the new one.
Reduced(list, event) == Append(Broker!Trim(list, Limit - 1), event)

ForwardBatch ==
    /\ queue[Dashboard] # NoQueue /\ queue[Dashboard] # << >>
    /\ LET event == Head(queue[Dashboard])
           i == stream.interval
           h == Batched(handler, OccurredAt(event), i) IN
       /\ handler' = h
       /\ queue' = [queue EXCEPT ![Dashboard] = Tail(@)]
       /\ IF h.forwardBatch
          THEN /\ cursor' = [cursor EXCEPT ![Dashboard] = event.id]
               /\ lists' = [lists EXCEPT ![i] = Reduced(lists[i], event)]
          ELSE UNCHANGED <<cursor, lists>>
    /\ UNCHANGED <<times, published, recent, stream, gap, troubles>>

-----------------------------------------------------------------------------
(* The browser. *)

Connect ==
    /\ stream.state = "connecting"
    /\ Broker!Subscribe(Dashboard)
    /\ handler' = NewHandler /\ stream' = [stream EXCEPT !.state = "streaming"]
    /\ gap' = [gap EXCEPT ![stream.interval] =
                   @ \/ (cursor[Dashboard] # 0
                          /\ published - Len(Broker!Trim(recent, QueueSize)) > cursor[Dashboard])]
    /\ UNCHANGED <<times, published, recent, cursor, lists, troubles>>

Trouble == troubles < MaxTroubles /\ troubles' = troubles + 1

\* The stream ends or cannot be read: waitForReconnect.
ConnectionLost ==
    /\ stream.state = "streaming" /\ Trouble
    /\ Broker!Disconnect(Dashboard) /\ handler' = NewHandler
    /\ stream' = [stream EXCEPT !.state = "connecting"]
    /\ UNCHANGED <<times, lists, gap>>

\* A generator and its connection are gone, its cursor with them.
Abort ==
    /\ queue' = [queue EXCEPT ![Dashboard] = NoQueue] /\ handler' = NewHandler
    /\ cursor' = [cursor EXCEPT ![Dashboard] = 0]

\* A new generator; the query is reset.
BeginStream(i) ==
    /\ stream' = [interval |-> i, state |-> "connecting"]
    /\ lists' = [lists EXCEPT ![i] = << >>]
    /\ gap' = [gap EXCEPT ![i] = FALSE]

\* The reconnection is refused: the generator throws, and the query begins
\* again, perhaps not at once.
StreamRefused ==
    /\ stream.state = "connecting" /\ Trouble /\ Abort
    /\ \/ BeginStream(stream.interval)
       \/ stream' = [stream EXCEPT !.state = "idle"] /\ UNCHANGED <<lists, gap>>
    /\ UNCHANGED <<times, published, recent>>

\* The last widget unmounts, or observes another interval: the stream is
\* aborted, and its list stays with the query library.
LeaveDashboard ==
    /\ stream.state # "idle" /\ Trouble /\ Abort
    /\ stream' = [stream EXCEPT !.state = "idle"]
    /\ UNCHANGED <<times, published, recent, lists, gap>>

\* A list the query library takes for fresh is shown without a stream.
ReturnToDashboard ==
    /\ stream.state = "idle" /\ BeginStream(stream.interval)
    /\ UNCHANGED <<times, published, recent, queue, cursor, handler, troubles>>

ChooseInterval(i) ==
    /\ i # stream.interval /\ Trouble /\ Abort
    /\ \/ BeginStream(i)
       \/ /\ lists[i] # << >>
          /\ stream' = [interval |-> i, state |-> "idle"] /\ UNCHANGED <<lists, gap>>
    /\ UNCHANGED <<times, published, recent>>

MetricsNext ==
    \/ Tick \/ PublishSample \/ ForwardBatch
    \/ Connect \/ ConnectionLost \/ StreamRefused
    \/ LeaveDashboard \/ ReturnToDashboard \/ \E i \in Interval : ChooseInterval(i)

MetricsSpec == MetricsInit /\ [][MetricsNext]_metricsVars

-----------------------------------------------------------------------------
(* Correctness *)

MetricsTypeOK ==
    /\ published \in 0..(MaxSamples * Families) /\ Len(times) \in 0..MaxSamples
    /\ cursor[Dashboard] \in 0..published
    /\ stream.interval \in Interval /\ stream.state \in {"idle", "connecting", "streaming"}
    /\ (stream.state = "streaming") = (queue[Dashboard] # NoQueue)
    /\ \A i \in Interval : Len(lists[i]) <= Limit
    /\ troubles \in 0..MaxTroubles

Shown == lists[stream.interval]

\* No event is shown twice, or before an older one, over reconnections.
ListInOrder == \A j, k \in 1..Len(Shown) : j < k => Shown[j].id < Shown[k].id

\* "All events from a sample share one timestamp so consumers can treat them as
\* a single snapshot" (metrics.go): between the first and the last sample of a
\* list there is no part of one, unless an event was lost on the way, though a
\* connection may end between two of its events.
SnapshotsAreWhole ==
    LET samples == {SampleOf(Shown[j].id) : j \in 1..Len(Shown)} IN
    ~gap[stream.interval] => \A s \in samples :
               \/ s = SampleOf(Shown[1].id) \/ s = SampleOf(Shown[Len(Shown)].id)
               \/ \A n \in 1..Families : \E j \in 1..Len(Shown) :
                     Shown[j].id = (s - 1) * Families + n

\* A handler that has nothing queued has forwarded a sample less than an
\* interval older than the newest one it was sent.
WindowsKeepPace ==
    queue[Dashboard] = << >> /\ handler.currentBatch # 0 =>
        handler.currentBatch - handler.lastBatch < stream.interval

\* What the gauges and charts show: whole samples in order, at their pace.
SnapshotsHold == ListInOrder /\ SnapshotsAreWhole /\ WindowsKeepPace

=============================================================================
